---- MODULE Spec2Model ----
(***************************************************************************)
(* A model of the column family and the block of clickhouse-cpp            *)
(* (src/clickhouse/block.cpp, src/clickhouse/columns/*.cpp).               *)
(*                                                                         *)
(* Columns are records; every method of a column class is an operator from *)
(* the column (and its arguments) to the column after the call.  A byte    *)
(* stream is a sequence of bytes 0..255.  The code that is not part of the *)
(* sources at hand (columns/numeric.cpp, columns/utils.h, base/coded.h,    *)
(* base/wire_format.h, types/types.h) is modelled from the specification's *)
(* description of the wire format and of the integer vector.               *)
(***************************************************************************)
EXTENDS Integers, Sequences, FiniteSets, TLC

VARIABLES heap, columns_, info_, col, flags, run, last

vars == <<heap, columns_, info_, col, flags, run, last>>

(***************************************************************************)
(* Bounds of the model.                                                    *)
(***************************************************************************)
\* Rows a column may hold before the appends and loads of the model stop.
MaxRows == 2
\* Entries a block may hold before AppendColumn of the model stops.
MaxBlockCols == 2
\* Largest value an out-of-bounds read of an offset may deliver.
MaxGarbage == 1
\* Rounds of the block-reuse loop.
MaxRounds == 2

(***************************************************************************)
(* Program constants.                                                      *)
(***************************************************************************)
INITIAL_CAPACITY == 8
SecondsPerDay == 86400
FIXED_STR_LEN == 4

\* TLC's integers have 32 bits: size_t and uint64_t arithmetic is taken
\* modulo 2^20 instead of 2^64, far above every size the model reaches.
SizeTModulus == 2^20

(***************************************************************************)
(* Sequences.                                                              *)
(***************************************************************************)
Min(a, b) == IF a < b THEN a ELSE b

Take(s, n) == SubSeq(s, 1, Min(n, Len(s)))

Drop(s, n) == SubSeq(s, n + 1, Len(s))

Fill(n, v) == [i \in 1..n |-> v]

\* std::vector::resize(n, v): cut to n elements or extended with v.
Resize(s, n, v) == [i \in 1..n |-> IF i <= Len(s) THEN s[i] ELSE v]

RECURSIVE Flatten(_)
Flatten(ss) == IF ss = <<>> THEN <<>> ELSE Head(ss) \o Flatten(Tail(ss))

RECURSIVE SumSeq(_)
SumSeq(s) == IF s = <<>> THEN 0 ELSE Head(s) + SumSeq(Tail(s))

NonDecreasing(s) == \A i \in 1..Len(s) - 1 : s[i] <= s[i + 1]

\* utils.h, SliceVector: the elements [begin, begin+len) of vec, len clamped
\* to the end of vec, nothing when begin is past the end.
SliceVector(vec, begin, len) ==
    IF begin < Len(vec)
    THEN SubSeq(vec, begin + 1, begin + Min(len, Len(vec) - begin))
    ELSE <<>>

(***************************************************************************)
(* Wire primitives (base/coded.h, base/wire_format.h).  A read returns     *)
(* [ok, value, rest]; after a failed read the stream is exhausted.         *)
(***************************************************************************)
RECURSIVE WriteFixed(_, _)
\* n bytes of v, little-endian, two's complement.
WriteFixed(v, n) ==
    IF n = 0 THEN <<>> ELSE <<v % 256>> \o WriteFixed(v \div 256, n - 1)

RECURSIVE DecodeUnsigned(_)
DecodeUnsigned(bs) ==
    IF bs = <<>> THEN 0 ELSE Head(bs) + 256 * DecodeUnsigned(Tail(bs))

\* The value of little-endian bytes bs, two's complement when signed.
DecodeFixed(bs, signed) ==
    IF signed /\ bs # <<>> /\ bs[Len(bs)] >= 128
    THEN -(DecodeUnsigned([i \in 1..Len(bs) |-> 255 - bs[i]]) + 1)
    ELSE DecodeUnsigned(bs)

RECURSIVE WriteVarint64(_)
WriteVarint64(v) ==
    IF v < 128 THEN <<v>> ELSE <<128 + (v % 128)>> \o WriteVarint64(v \div 128)

RECURSIVE ReadVarintLoop(_, _, _, _)
\* Seven bits a byte, the high bit says that another byte follows; at most
\* ten bytes.
ReadVarintLoop(input, mult, acc, count) ==
    IF count = 10 \/ input = <<>>
    THEN [ok |-> FALSE, value |-> acc, rest |-> <<>>]
    ELSE LET b == Head(input)
             v == acc + (b % 128) * mult
         IN IF b < 128
            THEN [ok |-> TRUE, value |-> v, rest |-> Tail(input)]
            ELSE ReadVarintLoop(Tail(input), mult * 128, v, count + 1)

ReadVarint64(input) == ReadVarintLoop(input, 1, 0, 0)

\* WireFormat::ReadBytes: exactly n bytes, or failure with what there was.
ReadBytes(input, n) ==
    IF Len(input) >= n
    THEN [ok |-> TRUE, value |-> Take(input, n), rest |-> Drop(input, n)]
    ELSE [ok |-> FALSE, value |-> input, rest |-> <<>>]

WriteBytes(bs) == bs

\* WireFormat::ReadString: a varint length, then that many bytes.
\* The string is resized to the length before its bytes are read (resized).
ReadString(input) ==
    LET l == ReadVarint64(input)
        b == ReadBytes(l.rest, l.value)
    IN IF ~l.ok THEN [ok |-> FALSE, value |-> <<>>, rest |-> <<>>, resized |-> FALSE]
       ELSE [ok |-> b.ok, value |-> Resize(b.value, l.value, 0), rest |-> b.rest,
             resized |-> TRUE]

WriteString(s) == WriteVarint64(Len(s)) \o s

(***************************************************************************)
(* ColumnVector<T> (columns/numeric.h, numeric.cpp): a vector of T.        *)
(***************************************************************************)
VectorKinds == {"UInt8", "UInt16", "UInt32", "UInt64", "Int32"}

SizeOf(kind) ==
    CASE kind = "UInt8" -> 1
      [] kind = "UInt16" -> 2
      [] kind \in {"UInt32", "Int32"} -> 4
      [] kind = "UInt64" -> 8

IsSigned(kind) == kind = "Int32"

ColumnVector(kind) == [kind |-> kind, data_ |-> <<>>]

\* ColumnVector(const std::vector<T>& data)
ColumnVectorOf(kind, data) == [kind |-> kind, data_ |-> data]

\* Append(const T& value): push_back.
VectorAppend(c, value) == [c EXCEPT !.data_ = Append(c.data_, value)]

\* AppendData(const void* v, size_t n): the n values at v are inserted at
\* the end.
VectorAppendData(c, v) == [c EXCEPT !.data_ = c.data_ \o v]

\* Append(ColumnRef): the rows of a vector of the same T.
VectorAppendColumn(c, other) ==
    IF other.kind = c.kind THEN [c EXCEPT !.data_ = c.data_ \o other.data_] ELSE c

RECURSIVE DecodeRows(_, _, _)
DecodeRows(bytes, w, signed) ==
    IF Len(bytes) < w THEN <<>>
    ELSE <<DecodeFixed(Take(bytes, w), signed)>> \o DecodeRows(Drop(bytes, w), w, signed)

\* Load: rows * sizeof(T) bytes, little-endian, appended to the vector.  When
\* the input runs short the vector keeps the rows that were decoded.
VectorLoad(c, input, rows) ==
    LET w == SizeOf(c.kind)
        r == ReadBytes(input, rows * w)
    IN [ok |-> r.ok,
        col |-> [c EXCEPT !.data_ = c.data_ \o DecodeRows(r.value, w, IsSigned(c.kind))],
        rest |-> r.rest]

VectorSave(c) ==
    WriteBytes(Flatten([i \in 1..Len(c.data_) |-> WriteFixed(c.data_[i], SizeOf(c.kind))]))

VectorSize(c) == Len(c.data_)

VectorSlice(c, begin, len) == ColumnVectorOf(c.kind, SliceVector(c.data_, begin, len))

VectorClear(c) == [c EXCEPT !.data_ = <<>>]

(***************************************************************************)
(* ColumnString (columns/string.cpp): data_ is the storage, of which the   *)
(* first size_ strings are the rows.                                       *)
(***************************************************************************)
ColumnString == [kind |-> "String", data_ |-> <<>>, size_ |-> 0]

\* ColumnString(const std::vector<std::string>& data)
ColumnStringOf(data) == [kind |-> "String", data_ |-> data, size_ |-> Len(data)]

\* Append(const std::string& str)
StringAppend(c, str) ==
    LET grown == IF c.size_ >= Len(c.data_)
                 THEN IF Len(c.data_) = 0
                      THEN Resize(c.data_, 8, <<>>)
                      ELSE Resize(c.data_, 2 * Len(c.data_), <<>>)
                 ELSE c.data_
    IN [c EXCEPT !.data_ = [grown EXCEPT ![c.size_ + 1] = str],
                 !.size_ = c.size_ + 1]

RECURSIVE StringAppendData(_, _)
\* AppendData(const void* v, size_t n): Append of each of the n strings.
StringAppendData(c, v) ==
    IF v = <<>> THEN c ELSE StringAppendData(StringAppend(c, Head(v)), Tail(v))

\* Append(ColumnRef column): the storage of column is inserted at the end of
\* the storage, and size_ grows by the rows of column.
StringAppendColumn(c, other) ==
    IF other.kind = "String"
    THEN [c EXCEPT !.data_ = c.data_ \o other.data_, !.size_ = c.size_ + other.size_]
    ELSE c

RECURSIVE StringLoadLoop(_, _, _, _)
\* The loop of Load: string i of the batch is read into data_[size_ + i].
StringLoadLoop(c, input, i, rows) ==
    IF i = rows
    THEN [ok |-> TRUE, col |-> [c EXCEPT !.size_ = c.size_ + rows], rest |-> input]
    ELSE LET r == ReadString(input)
             d == IF r.resized THEN [c.data_ EXCEPT ![c.size_ + i + 1] = r.value]
                               ELSE c.data_
         IN IF ~r.ok
            THEN [ok |-> FALSE,
                  col |-> [c EXCEPT !.data_ = d, !.size_ = c.size_ + i],
                  rest |-> r.rest]
            ELSE StringLoadLoop([c EXCEPT !.data_ = d], r.rest, i + 1, rows)

StringLoad(c, input, rows) ==
    StringLoadLoop([c EXCEPT !.data_ = Resize(c.data_, c.size_ + rows, <<>>)], input, 0, rows)

StringSave(c) == Flatten([i \in 1..c.size_ |-> WriteString(c.data_[i])])

StringSize(c) == c.size_

StringSlice(c, begin, len) == ColumnStringOf(SliceVector(c.data_, begin, len))

\* A Clear that empties the strings and keeps size_.
StringClearKeepsSize(c) == [c EXCEPT !.data_ = Fill(Len(c.data_), <<>>)]

\* ColumnString::Clear: every string of the storage is emptied, the storage
\* keeps its length.
StringClear(c) == [c EXCEPT !.data_ = Fill(Len(c.data_), <<>>), !.size_ = 0]

(***************************************************************************)
(* ColumnFixedString (columns/string.cpp): data_ is one byte buffer, of    *)
(* which the first size_ * string_size_ bytes are the rows.                *)
(***************************************************************************)
ColumnFixedString(n) ==
    [kind |-> "FixedString", string_size_ |-> n,
     data_ |-> Fill(INITIAL_CAPACITY * n, 0), size_ |-> 0]

\* EnlargeBuffer never returns when the buffer is empty and bytes are needed:
\* twice nothing is nothing.
EnlargeBufferHangs(c, new_size) ==
    Len(c.data_) = 0 /\ new_size * c.string_size_ > 0

RECURSIVE EnlargedLen(_, _)
EnlargedLen(len, need_bytes) ==
    IF need_bytes > len THEN EnlargedLen(2 * len, need_bytes) ELSE len

\* EnlargeBuffer(new_size): the buffer doubles until it holds new_size rows.
EnlargeBuffer(c, new_size) ==
    [c EXCEPT !.data_ = Resize(c.data_, EnlargedLen(Len(c.data_), new_size * c.string_size_), 0)]

\* memcpy(&data_[at], src, Len(src))
MemCpy(data, at, src) ==
    [i \in 1..Len(data) |-> IF i > at /\ i <= at + Len(src) THEN src[i - at] ELSE data[i]]

\* Append(const std::string& str)
FixedStringAppend(c, str) ==
    LET e == EnlargeBuffer(c, c.size_ + 1)
        copy_size == IF Len(str) >= c.string_size_ THEN c.string_size_ ELSE Len(str)
    IN [e EXCEPT !.data_ = MemCpy(e.data_, c.size_ * c.string_size_, Take(str, copy_size)),
                 !.size_ = c.size_ + 1]

\* AppendData(const void* v, size_t n): v holds n * string_size_ bytes.
FixedStringAppendData(c, v, n) ==
    LET e == EnlargeBuffer(c, c.size_ + n)
    IN [e EXCEPT !.data_ = MemCpy(e.data_, c.size_ * c.string_size_, Take(v, n * c.string_size_)),
                 !.size_ = c.size_ + n]

\* An Append(ColumnRef) that does not compare the widths.
FixedStringAppendColumnAnyWidth(c, other) ==
    IF other.kind = "FixedString"
    THEN [c EXCEPT !.data_ = c.data_ \o other.data_, !.size_ = c.size_ + other.size_]
    ELSE c

\* Append(ColumnRef column): the buffer of column is inserted at the end of
\* the buffer, and size_ grows by the rows of column.
FixedStringAppendColumn(c, other) ==
    IF other.kind = "FixedString" /\ other.string_size_ = c.string_size_
    THEN [c EXCEPT !.data_ = c.data_ \o other.data_, !.size_ = c.size_ + other.size_]
    ELSE c

\* Load: the buffer is resized to the rows there are plus the rows to come,
\* and the bytes are read behind the rows there are.  A short read may or may
\* not have written the bytes it got.
FixedStringLoad(c, input, rows) ==
    LET w == c.string_size_
        d == Resize(c.data_, (c.size_ + rows) * w, 0)
        r == ReadBytes(input, rows * w)
    IN IF r.ok
       THEN {[ok |-> TRUE,
              col |-> [c EXCEPT !.data_ = MemCpy(d, c.size_ * w, r.value),
                                !.size_ = c.size_ + rows],
              rest |-> r.rest, crash |-> FALSE]}
       ELSE {[ok |-> FALSE, col |-> [c EXCEPT !.data_ = dd], rest |-> r.rest, crash |-> FALSE]
             : dd \in {d, MemCpy(d, c.size_ * w, r.value)}}

FixedStringSave(c) == WriteBytes(Take(c.data_, c.size_ * c.string_size_))

FixedStringSize(c) == c.size_

\* Slice: a new column whose buffer is the bytes of the rows; its size_ stays
\* that of a new column.
FixedStringSlice(c, begin, len) ==
    LET result == ColumnFixedString(c.string_size_)
    IN IF begin < c.size_
       THEN [result EXCEPT !.data_ =
                SliceVector(c.data_, begin * c.string_size_, len * c.string_size_)]
       ELSE result

FixedStringClear(c) == [c EXCEPT !.size_ = 0, !.data_ = Fill(Len(c.data_), 0)]

(***************************************************************************)
(* ColumnDate and ColumnDateTime (columns/date.cpp): a ColumnUInt16 of     *)
(* days and a ColumnUInt32 of seconds.                                     *)
(***************************************************************************)
ColumnDate == [kind |-> "Date", data_ |-> ColumnVector("UInt16")]

ColumnDateTime == [kind |-> "DateTime", data_ |-> ColumnVector("UInt32")]

\* static_cast<uint16_t>
CastUInt16(v) == v % 65536

\* static_cast<uint32_t>: the model's times are below 2^31, where the cast
\* changes nothing.
CastUInt32(v) == v

\* ColumnDate::Append(const std::time_t& value)
DateAppend(c, value) ==
    [c EXCEPT !.data_ = VectorAppend(c.data_, CastUInt16(value \div SecondsPerDay))]

RECURSIVE DateAppendData(_, _)
\* ColumnDate::AppendData(const void* v, size_t n): Append of each of the n
\* times at v.
DateAppendData(c, v) ==
    IF v = <<>> THEN c ELSE DateAppendData(DateAppend(c, Head(v)), Tail(v))

\* ColumnDate::At
DateAt(c, n) == c.data_.data_[n + 1] * SecondsPerDay

\* ColumnDateTime::Append(const std::time_t& value)
DateTimeAppend(c, value) == [c EXCEPT !.data_ = VectorAppend(c.data_, CastUInt32(value))]

RECURSIVE DateTimeAppendData(_, _)
\* ColumnDateTime::AppendData(const void* v, size_t n)
DateTimeAppendData(c, v) ==
    IF v = <<>> THEN c ELSE DateTimeAppendData(DateTimeAppend(c, Head(v)), Tail(v))

\* ColumnDateTime::At
DateTimeAt(c, n) == c.data_.data_[n + 1]

\* Append(ColumnRef) of both: the inner vector of a column of the same class.
DateAppendColumn(c, other) ==
    IF other.kind = c.kind
    THEN [c EXCEPT !.data_ = VectorAppendColumn(c.data_, other.data_)]
    ELSE c

DateLoad(c, input, rows) ==
    LET r == VectorLoad(c.data_, input, rows)
    IN [ok |-> r.ok, col |-> [c EXCEPT !.data_ = r.col], rest |-> r.rest]

DateSave(c) == VectorSave(c.data_)

DateSize(c) == VectorSize(c.data_)

\* Slice of both: a new column to whose inner vector the slice of the inner
\* vector is appended.
DateSlice(c, begin, len) ==
    LET result == IF c.kind = "Date" THEN ColumnDate ELSE ColumnDateTime
    IN [result EXCEPT !.data_ =
            VectorAppendColumn(result.data_, VectorSlice(c.data_, begin, len))]

DateClear(c) == [c EXCEPT !.data_ = VectorClear(c.data_)]

(***************************************************************************)
(* The virtual methods of Column (columns/column.h), by the class of the   *)
(* column, and ColumnArray (columns/array.cpp): data_ is the column of the *)
(* elements, offsets_ a ColumnUInt64 of the end of each row in it.         *)
(***************************************************************************)
IsVector(c) == c.kind \in VectorKinds

IsDate(c) == c.kind \in {"Date", "DateTime"}

RECURSIVE TypeName(_)
\* Type()->GetName(), as the words of the name: Type::IsEqual compares it.
TypeName(c) ==
    CASE c.kind = "FixedString" -> <<"FixedString", ToString(c.string_size_)>>
      [] c.kind = "Array" -> <<"Array">> \o TypeName(c.data_)
      [] OTHER -> <<c.kind>>

TypeIsEqual(a, b) == TypeName(a) = TypeName(b)

ColumnArray(data) ==
    [kind |-> "Array", data_ |-> data, offsets_ |-> ColumnVector("UInt64")]

RECURSIVE ColSize(_)
ColSize(c) ==
    CASE IsVector(c) -> VectorSize(c)
      [] c.kind = "String" -> StringSize(c)
      [] c.kind = "FixedString" -> FixedStringSize(c)
      [] IsDate(c) -> DateSize(c)
      [] c.kind = "Array" -> VectorSize(c.offsets_)

RECURSIVE ColAppendColumn(_, _)
RECURSIVE ColSlice(_, _, _)
RECURSIVE ColLoad(_, _, _)
RECURSIVE ColSave(_)
RECURSIVE ColClear(_)

\* (*offsets_)[n]: the vector's operator[] checks no bound.
OffsetAt(c, n) == c.offsets_.data_[n + 1]

\* ColumnArray::GetOffset
GetOffset(c, n) == IF n = 0 THEN 0 ELSE OffsetAt(c, n - 1)

\* ColumnArray::GetSize
GetSize(c, n) ==
    IF n = 0 THEN OffsetAt(c, n)
    ELSE (OffsetAt(c, n) - OffsetAt(c, n - 1)) % SizeTModulus

\* AppendAsColumn that compares no types.
ArrayAppendAsColumnUnchecked(c, array) ==
    LET n == VectorSize(c.offsets_)
        end == IF n = 0 THEN ColSize(array)
               ELSE (c.offsets_.data_[n] + ColSize(array)) % SizeTModulus
    IN [thrown |-> FALSE,
        col |-> [c EXCEPT !.offsets_ = VectorAppend(c.offsets_, end),
                          !.data_ = ColAppendColumn(c.data_, array)]]

\* AppendAsColumn that pushes the length of the new row, not its end.
ArrayAppendAsColumnLength(c, array) ==
    IF ~TypeIsEqual(c.data_, array)
    THEN [thrown |-> TRUE, col |-> c]
    ELSE [thrown |-> FALSE,
          col |-> [c EXCEPT !.offsets_ = VectorAppend(c.offsets_, ColSize(array)),
                            !.data_ = ColAppendColumn(c.data_, array)]]

\* ColumnArray::AppendAsColumn: throws when the types differ (thrown), else
\* pushes the end of the new row and appends the rows of array to data_.
ArrayAppendAsColumn(c, array) ==
    IF ~TypeIsEqual(c.data_, array)
    THEN [thrown |-> TRUE, col |-> c]
    ELSE LET n == VectorSize(c.offsets_)
             end == IF n = 0 THEN ColSize(array)
                    ELSE (OffsetAt(c, n - 1) + ColSize(array)) % SizeTModulus
         IN [thrown |-> FALSE,
             col |-> [c EXCEPT !.offsets_ = VectorAppend(c.offsets_, end),
                               !.data_ = ColAppendColumn(c.data_, array)]]

\* ColumnArray::GetAsColumn
ArrayGetAsColumn(c, n) == ColSlice(c.data_, GetOffset(c, n), GetSize(c, n))

RECURSIVE ArrayAppendLoop(_, _, _)
\* The loop of ColumnArray::Append over the rows of another array column.
ArrayAppendLoop(c, other, i) ==
    IF i >= ColSize(other) THEN c
    ELSE ArrayAppendLoop(ArrayAppendAsColumn(c, ArrayGetAsColumn(other, i)).col, other, i + 1)

\* ColumnArray::Append(ColumnRef column), column another object than this.
ArrayAppend(c, other) ==
    IF other.kind = "Array" /\ TypeIsEqual(other.data_, c.data_)
    THEN ArrayAppendLoop(c, other, 0)
    ELSE c

\* The values (*offsets_)[new_size - 1] may deliver in Load: the last offset,
\* or, when there is none, whatever lies before the vector's storage; the
\* read may also end the process (crash).
LoadSizes(offsets) ==
    IF Len(offsets) > 0
    THEN {[crash |-> FALSE, load_size |-> offsets[Len(offsets)]]}
    ELSE {[crash |-> TRUE, load_size |-> 0]}
         \cup {[crash |-> FALSE, load_size |-> g] : g \in 0..MaxGarbage}

\* A loop that adds adjust_offset to every offset, from the first on.
AdjustOffsetsFromFirst(offsets, old_size, adjust_offset) ==
    [i \in 1..Len(offsets) |-> (offsets[i] + adjust_offset) % SizeTModulus]

\* The loop of Load that adds adjust_offset to the offsets from old_size on.
AdjustOffsets(offsets, old_size, adjust_offset) ==
    [i \in 1..Len(offsets) |->
        IF i > old_size THEN (offsets[i] + adjust_offset) % SizeTModulus ELSE offsets[i]]

\* ColumnArray::Load
ArrayLoad(c, input, rows) ==
    LET old_size == VectorSize(c.offsets_)
        o == VectorLoad(c.offsets_, input, rows)
        withOffsets == [c EXCEPT !.offsets_ = o.col]
    IN IF ~o.ok
       THEN {[ok |-> FALSE, col |-> withOffsets, rest |-> o.rest, crash |-> FALSE]}
       ELSE UNION {
              IF ls.crash
              THEN {[ok |-> FALSE, col |-> withOffsets, rest |-> o.rest, crash |-> TRUE]}
              ELSE { IF ~d.ok
                     THEN [ok |-> FALSE, col |-> [withOffsets EXCEPT !.data_ = d.col],
                           rest |-> d.rest, crash |-> d.crash]
                     ELSE [ok |-> TRUE,
                           col |-> [withOffsets EXCEPT
                                      !.data_ = d.col,
                                      !.offsets_.data_ =
                                          IF old_size > 0
                                          THEN AdjustOffsets(o.col.data_, old_size,
                                                             o.col.data_[old_size])
                                          ELSE o.col.data_],
                           rest |-> d.rest, crash |-> FALSE]
                     : d \in ColLoad(c.data_, o.rest, ls.load_size) }
              : ls \in LoadSizes(o.col.data_) }

\* ColumnArray::Save
ArraySave(c) == VectorSave(c.offsets_) \o ColSave(c.data_)

\* A Clear that leaves the inner column alone.
ArrayClearOffsetsOnly(c) == [c EXCEPT !.offsets_ = VectorClear(c.offsets_)]

\* ColumnArray::Clear
ArrayClear(c) == [c EXCEPT !.offsets_ = VectorClear(c.offsets_), !.data_ = ColClear(c.data_)]

Det(r) == {[ok |-> r.ok, col |-> r.col, rest |-> r.rest, crash |-> FALSE]}

\* Column::Append(ColumnRef column)
ColAppendColumn(c, other) ==
    CASE IsVector(c) -> VectorAppendColumn(c, other)
      [] c.kind = "String" -> StringAppendColumn(c, other)
      [] c.kind = "FixedString" -> FixedStringAppendColumn(c, other)
      [] IsDate(c) -> DateAppendColumn(c, other)
      [] c.kind = "Array" -> ArrayAppend(c, other)

\* ColumnRef(): the reference to no column.
NullColumnRef == [kind |-> "null"]

\* ColumnArray::Slice: nothing is thrown, the null reference is returned,
\* whatever begin and len.
ArraySlice(c, begin, len) == [thrown |-> FALSE, col |-> NullColumnRef]

\* Column::Slice; an array column returns the null ColumnRef.
ColSlice(c, begin, len) ==
    CASE IsVector(c) -> VectorSlice(c, begin, len)
      [] c.kind = "String" -> StringSlice(c, begin, len)
      [] c.kind = "FixedString" -> FixedStringSlice(c, begin, len)
      [] IsDate(c) -> DateSlice(c, begin, len)
      [] c.kind = "Array" -> ArraySlice(c, begin, len).col

\* Column::Load: the outcomes [ok, col, rest, crash] the call may have.
ColLoad(c, input, rows) ==
    CASE IsVector(c) -> Det(VectorLoad(c, input, rows))
      [] c.kind = "String" -> Det(StringLoad(c, input, rows))
      [] c.kind = "FixedString" -> FixedStringLoad(c, input, rows)
      [] IsDate(c) -> Det(DateLoad(c, input, rows))
      [] c.kind = "Array" -> ArrayLoad(c, input, rows)

\* Column::Save: the bytes written.
ColSave(c) ==
    CASE IsVector(c) -> VectorSave(c)
      [] c.kind = "String" -> StringSave(c)
      [] c.kind = "FixedString" -> FixedStringSave(c)
      [] IsDate(c) -> DateSave(c)
      [] c.kind = "Array" -> ArraySave(c)

\* Column::Clear
ColClear(c) ==
    CASE IsVector(c) -> VectorClear(c)
      [] c.kind = "String" -> StringClear(c)
      [] c.kind = "FixedString" -> FixedStringClear(c)
      [] IsDate(c) -> DateClear(c)
      [] c.kind = "Array" -> ArrayClear(c)

\* Column::AppendValue(v): AppendData(&v) of the class, one value; the
\* classes that do not override AppendData throw (thrown).
ColAppendValue(c, v) ==
    CASE IsVector(c) -> [thrown |-> FALSE, col |-> VectorAppendData(c, <<v>>)]
      [] c.kind = "String" -> [thrown |-> FALSE, col |-> StringAppendData(c, <<v>>)]
      [] c.kind = "FixedString" -> [thrown |-> FALSE, col |-> FixedStringAppendData(c, v, 1)]
      [] c.kind = "Date" -> [thrown |-> FALSE, col |-> DateAppendData(c, <<v>>)]
      [] c.kind = "DateTime" -> [thrown |-> FALSE, col |-> DateTimeAppendData(c, <<v>>)]
      [] OTHER -> [thrown |-> TRUE, col |-> c]

(***************************************************************************)
(* What a caller reads back from a column.                                 *)
(***************************************************************************)
\* The element slots Data(n) addresses, n from 0: the whole storage, rows or
\* not.
Storage(c) ==
    CASE IsVector(c) -> c.data_
      [] c.kind = "String" -> c.data_
      [] c.kind = "FixedString" ->
            [i \in 1..(Len(c.data_) \div c.string_size_) |->
                SubSeq(c.data_, (i - 1) * c.string_size_ + 1, i * c.string_size_)]
      [] IsDate(c) -> c.data_.data_

\* The elements of row n of an array column, as the test reads them: GetSize(n)
\* elements from Data(n), the address of element GetOffset(n) of data_.
RowInStorage(c, n) == GetOffset(c, n) + GetSize(c, n) <= Len(Storage(c.data_))

ArrayRow(c, n) ==
    SubSeq(Storage(c.data_), GetOffset(c, n) + 1, GetOffset(c, n) + GetSize(c, n))

\* Row n, from 0, by At(n) or, for an array column, by Data(n) and GetSize(n).
RowAt(c, n) ==
    CASE c.kind = "Date" -> DateAt(c, n)
      [] c.kind = "DateTime" -> DateTimeAt(c, n)
      [] c.kind = "Array" -> ArrayRow(c, n)
      [] OTHER -> Storage(c)[n + 1]

\* Every row lies in the storage (no row is read out of bounds).
RowsReadable(c) ==
    IF c.kind = "Array"
    THEN \A n \in 0..ColSize(c) - 1 : RowInStorage(c, n)
    ELSE ColSize(c) <= Len(Storage(c))

Rows(c) == [i \in 1..ColSize(c) |-> RowAt(c, i - 1)]

SameRows(a, b) ==
    /\ ColSize(a) = ColSize(b)
    /\ RowsReadable(a) /\ RowsReadable(b)
    /\ Rows(a) = Rows(b)

\* Row n can be read: it lies in the storage.
RowReadable(c, n) ==
    IF c.kind = "Array" THEN RowInStorage(c, n) ELSE n < Len(Storage(c))

\* The same number of rows, the same rows out of bounds, and the same value in
\* every other row.
SameRowsRead(a, b) ==
    /\ ColSize(a) = ColSize(b)
    /\ \A n \in 0..ColSize(a) - 1 :
          /\ RowReadable(a, n) = RowReadable(b, n)
          /\ RowReadable(a, n) => RowAt(a, n) = RowAt(b, n)

RECURSIVE Fresh(_)
\* A newly constructed column of the type of c.
Fresh(c) ==
    CASE IsVector(c) -> ColumnVector(c.kind)
      [] c.kind = "String" -> ColumnString
      [] c.kind = "FixedString" -> ColumnFixedString(c.string_size_)
      [] c.kind = "Date" -> ColumnDate
      [] c.kind = "DateTime" -> ColumnDateTime
      [] c.kind = "Array" -> ColumnArray(Fresh(c.data_))

(***************************************************************************)
(* The values and the byte streams the model draws its inputs from.        *)
(***************************************************************************)
\* Strings: shorter than and longer than the fixed strings' two bytes.
StringValues == {<<1>>, <<1, 2, 3>>}

\* Times: in day 1 and at the start of day 2.
TimeValues == {SecondsPerDay + 5, 2 * SecondsPerDay}

\* The values an element of a column of the type of c may take on the wire.
ElementSeqs(c) ==
    CASE c.kind = "String" -> {<<<<1>>, <<2, 3>>>>, <<<<2, 3>>, <<>>>>}
      [] c.kind = "FixedString" -> {<<<<1, 0>>, <<2, 3>>>>, <<<<2, 3>>, <<4, 4>>>>}
      [] c.kind = "Date" -> {<<1, 2>>, <<2, 300>>}
      [] OTHER -> {<<7, 300>>, <<300, 7>>}

\* The bytes of the elements es of a column of the type of c that is no array.
WireElements(c, es) ==
    CASE c.kind = "String" -> Flatten([i \in 1..Len(es) |-> WriteString(es[i])])
      [] c.kind = "FixedString" -> Flatten(es)
      [] c.kind = "Date" -> Flatten([i \in 1..Len(es) |-> WriteFixed(es[i], 2)])
      [] c.kind = "DateTime" -> Flatten([i \in 1..Len(es) |-> WriteFixed(es[i], 4)])
      [] OTHER -> Flatten([i \in 1..Len(es) |-> WriteFixed(es[i], SizeOf(c.kind))])

\* The offsets of a batch of array rows on the wire; the last one is out of
\* order.
WireOffsets == {<<0>>, <<1>>, <<1, 1>>, <<1, 2>>, <<2, 1>>}

\* The batches a column of the type of c may be sent: the rows of a column
\* that is no array, the offsets and the elements of an array column.
Batches(c) ==
    IF c.kind = "Array"
    THEN {[offsets |-> P, elems |-> Take(E, P[Len(P)])] :
            P \in WireOffsets, E \in ElementSeqs(c.data_)}
    ELSE {[offsets |-> <<>>, elems |-> Take(E, n)] : n \in 0..2, E \in ElementSeqs(c)}

BatchRows(c, b) == IF c.kind = "Array" THEN Len(b.offsets) ELSE Len(b.elems)

WireBatch(c, b) ==
    IF c.kind = "Array"
    THEN Flatten([i \in 1..Len(b.offsets) |-> WriteFixed(b.offsets[i], 8)])
            \o WireElements(c.data_, b.elems)
    ELSE WireElements(c, b.elems)

\* Where a stream of n bytes may end: nowhere short, one byte short.
Cuts(n) == {n, n - 1} \cap 0..n

(***************************************************************************)
(* SpecColumn: one column and the calls a caller makes on it.              *)
(*   col    the column                                                     *)
(*   flags  status: "run", or "crash"/"hang" once a call ended the process *)
(*                  or never returned;                                     *)
(*          cleared: the rows Clear dropped, when Clear was the last call  *)
(*                   that changed the column, else -1;                     *)
(*          sound: no Load has failed and no batch had its offsets out of  *)
(*                 order since the column was new or cleared;              *)
(*          aliased: the caller has appended to the inner column of the    *)
(*                   array column since it was new or cleared              *)
(*   last   the last call: its name, its result, its arguments             *)
(* A caller that got false from Load, or loaded a batch whose offsets are  *)
(* out of order, only clears the column.                                   *)
(***************************************************************************)
NoBatch == [offsets |-> <<>>, elems |-> <<>>]

NoCall == [op |-> "new", ok |-> TRUE, input |-> <<>>, rows |-> 0, batch |-> NoBatch,
           whole |-> FALSE, cleared |-> -1, out |-> <<>>, arg |-> <<>>]

Call(op, ok) == [NoCall EXCEPT !.op = op, !.ok = ok]

\* A call with an argument: the string, the time, the column, or the begin
\* and the len of a slice.
CallWith(op, ok, arg) == [Call(op, ok) EXCEPT !.arg = arg]

NewColumns ==
    {ColumnString, ColumnFixedString(2), ColumnDate, ColumnDateTime,
     ColumnArray(ColumnVector("UInt64")), ColumnArray(ColumnString)}

Unused == <<>>

InitColumn ==
    /\ col \in NewColumns
    /\ flags = [status |-> "run", cleared |-> -1, sound |-> TRUE, aliased |-> FALSE]
    /\ last = NoCall
    /\ heap = Unused /\ columns_ = Unused /\ info_ = Unused /\ run = Unused

BlockUnused == UNCHANGED <<heap, columns_, info_, run>>

Running == flags.status = "run"

\* After a Load that returned false, or one of a batch with its offsets out of
\* order, the caller clears the column before it uses it again.
Usable == Running /\ flags.sound

Touched == [flags EXCEPT !.cleared = -1]

\* The storage the appends of the model stop at: Append(column) adds the
\* whole storage of its argument, rows or not.
StorageCap == 2 * INITIAL_CAPACITY

StorageSlots(c) == IF c.kind = "Array" THEN Len(Storage(c.data_)) ELSE Len(Storage(c))

\* The columns a caller may pass where a column of the type of c is wanted:
\* none, one and two rows, built by the appends of their class.
BuiltColumns(c) ==
    CASE c.kind = "String" ->
            {ColumnString, StringAppendData(ColumnString, <<<<1>>>>),
             StringAppendData(ColumnString, <<<<2, 3>>, <<>>>>)}
      [] c.kind = "FixedString" ->
            {FixedStringAppend(Fresh(c), <<1>>),
             FixedStringAppend(FixedStringAppend(Fresh(c), <<2, 3>>), <<4>>)}
      [] c.kind = "Date" -> {DateAppend(ColumnDate, SecondsPerDay)}
      [] c.kind = "DateTime" -> {DateTimeAppend(ColumnDateTime, 5)}
      [] c.kind = "Array" ->
            {ArrayAppendAsColumn(Fresh(c), a).col : a \in
                IF c.data_.kind = "String"
                THEN {StringAppendData(ColumnString, <<<<1>>>>)}
                ELSE {ColumnVectorOf(c.data_.kind, <<7>>)}}
      [] OTHER -> {ColumnVector(c.kind), ColumnVectorOf(c.kind, <<7>>),
                   ColumnVectorOf(c.kind, <<300, 7>>)}

\* Columns of another type than c, each with a row: another class, the other
\* date class, a fixed string column of another width, an array column of
\* another element type.
Mismatched(c) ==
    {IF c.kind = "UInt8" THEN StringAppend(ColumnString, <<1>>)
                         ELSE ColumnVectorOf("UInt8", <<7>>)}
    \cup (IF c.kind = "Date" THEN {DateTimeAppend(ColumnDateTime, 5)} ELSE {})
    \cup (IF c.kind = "DateTime" THEN {DateAppend(ColumnDate, SecondsPerDay)} ELSE {})
    \cup (IF c.kind = "FixedString"
          THEN {FixedStringAppend(ColumnFixedString(c.string_size_ + 1), <<1>>)}
          ELSE {})
    \cup (IF c.kind = "Array"
          THEN {ArrayAppendAsColumn(ColumnArray(ColumnVector(k)),
                                    ColumnVectorOf(k, <<7>>)).col
                : k \in {"UInt64", "UInt32"} \ {c.data_.kind}}
          ELSE {})

\* Append(str) of a string column, Append(time) of a date column.
AppendValue ==
    /\ Usable
    /\ ColSize(col) < MaxRows
    /\ \/ /\ col.kind = "String"
          /\ \E str \in StringValues :
                /\ col' = StringAppend(col, str)
                /\ last' = CallWith("AppendValue", TRUE, str)
       \/ /\ col.kind = "FixedString"
          /\ ~EnlargeBufferHangs(col, col.size_ + 1)
          /\ \E str \in StringValues :
                /\ col' = FixedStringAppend(col, str)
                /\ last' = CallWith("AppendValue", TRUE, str)
       \/ /\ col.kind = "Date"
          /\ \E t \in TimeValues :
                /\ col' = DateAppend(col, t)
                /\ last' = CallWith("AppendValue", TRUE, t)
       \/ /\ col.kind = "DateTime"
          /\ \E t \in TimeValues :
                /\ col' = DateTimeAppend(col, t)
                /\ last' = CallWith("AppendValue", TRUE, t)
    /\ flags' = Touched
    /\ BlockUnused

\* Append(str) of a fixed string column whose buffer is empty.
AppendNeverReturns ==
    /\ Usable
    /\ col.kind = "FixedString"
    /\ EnlargeBufferHangs(col, col.size_ + 1)
    /\ flags' = [flags EXCEPT !.status = "hang"]
    /\ last' = Call("AppendValue", FALSE)
    /\ UNCHANGED col
    /\ BlockUnused

\* AppendAsColumn(array) of an array column.
AppendAsColumn ==
    /\ Usable
    /\ col.kind = "Array"
    /\ ColSize(col) < MaxRows
    /\ \E a \in BuiltColumns(col.data_) \cup Mismatched(col.data_) :
          LET r == ArrayAppendAsColumn(col, a)
          IN /\ col' = r.col
             /\ StorageSlots(col') <= StorageCap
             /\ ColSize(col.data_) <= MaxRows
             /\ flags' = IF r.thrown THEN flags ELSE Touched
             /\ last' = CallWith("AppendAsColumn", ~r.thrown, a)
    /\ BlockUnused

\* Append(column): column is another object, in the state of this column, or
\* with a row or two, or of another type.
AppendColumnRef ==
    /\ Usable
    /\ \E other \in {col} \cup BuiltColumns(col) \cup Mismatched(col) :
          /\ ColSize(col) + ColSize(other) <= MaxRows
          /\ col' = ColAppendColumn(col, other)
          /\ StorageSlots(col') <= StorageCap
          /\ last' = CallWith("Append", TRUE, other)
    /\ flags' = Touched
    /\ BlockUnused

\* The caller appends an element to the column it constructed the array
\* column with.
InnerAppend ==
    /\ Usable
    /\ col.kind = "Array"
    /\ ColSize(col.data_) <= MaxRows
    /\ col' = [col EXCEPT !.data_ =
                  IF col.data_.kind = "String"
                  THEN StringAppend(col.data_, <<1>>)
                  ELSE VectorAppend(col.data_, 7)]
    /\ flags' = [Touched EXCEPT !.aliased = TRUE]
    /\ last' = Call("InnerAppend", TRUE)
    /\ BlockUnused

\* The offsets the first rows * 8 bytes of input hold.
OffsetsRead(input, rows) == DecodeRows(Take(input, rows * 8), 8, FALSE)

\* Load(input, rows): a batch, whole or cut short, read as its rows or as no
\* rows.
Load ==
    /\ Usable
    /\ \E b \in Batches(col) :
       \E rows \in {BatchRows(col, b), 0} :
       \E cut \in Cuts(Len(WireBatch(col, b))) :
          LET input == Take(WireBatch(col, b), cut)
          IN /\ rows = 0 => cut = Len(WireBatch(col, b))
             /\ ColSize(col) + rows <= MaxRows
             /\ col.kind = "Array" => ColSize(col.data_) <= MaxRows
             /\ \E r \in ColLoad(col, input, rows) :
                   /\ col' = r.col
                   /\ flags' = [status |-> IF r.crash THEN "crash" ELSE "run",
                                cleared |-> -1,
                                aliased |-> flags.aliased,
                                sound |-> /\ flags.sound
                                          /\ r.ok
                                          /\ col.kind = "Array" =>
                                                NonDecreasing(OffsetsRead(input, rows))]
                   /\ last' = [NoCall EXCEPT
                                 !.op = "Load", !.ok = r.ok, !.input = input,
                                 !.rows = rows, !.batch = b,
                                 !.whole = (cut = Len(WireBatch(col, b))
                                            /\ rows = BatchRows(col, b)),
                                 !.cleared = flags.cleared]
    /\ BlockUnused

Clear ==
    /\ Running
    /\ col' = ColClear(col)
    /\ flags' = [flags EXCEPT
                    !.cleared = IF flags.cleared >= 0 THEN flags.cleared ELSE ColSize(col),
                    !.sound = TRUE, !.aliased = FALSE]
    /\ last' = Call("Clear", TRUE)
    /\ BlockUnused

\* The caller goes on with the column Slice(begin, len) returned.
Slice ==
    /\ Usable
    /\ col.kind # "Array"
    /\ \E begin \in 0..MaxRows, len \in 0..MaxRows :
          /\ col' = ColSlice(col, begin, len)
          /\ last' = CallWith("Slice", TRUE, <<begin, len>>)
    /\ flags' = Touched
    /\ BlockUnused

\* Slice(begin, len) of an array column: the caller holds what it returned
\* (out) and the column it called.
SliceArray ==
    /\ Usable
    /\ col.kind = "Array"
    /\ \E begin \in {0, MaxRows}, len \in {1} :
          LET r == ArraySlice(col, begin, len)
          IN last' = [CallWith("Slice", ~r.thrown, <<begin, len>>) EXCEPT
                         !.out = ColSlice(col, begin, len)]
    /\ UNCHANGED <<col, flags>>
    /\ BlockUnused

\* Save, and Load of the bytes into a new column of the same type, which out
\* holds afterwards.
RoundTrip ==
    /\ Usable
    /\ \E r \in ColLoad(Fresh(col), ColSave(col), ColSize(col)) :
          /\ flags' = [flags EXCEPT !.status = IF r.crash THEN "crash" ELSE "run"]
          /\ last' = [Call("RoundTrip", r.ok) EXCEPT !.out = r.col]
    /\ UNCHANGED col
    /\ BlockUnused

NextColumn ==
    \/ AppendValue
    \/ AppendNeverReturns
    \/ AppendAsColumn
    \/ AppendColumnRef
    \/ InnerAppend
    \/ Load
    \/ Clear
    \/ Slice
    \/ SliceArray
    \/ RoundTrip

SpecColumn == InitColumn /\ [][NextColumn]_vars

(***************************************************************************)
(* Claims about SpecColumn.                                                *)
(***************************************************************************)
LastInput == last.input

LastOffset(c) == IF ColSize(c) = 0 THEN 0 ELSE OffsetAt(c, ColSize(c) - 1)

\* C6: the bytes Save writes for a column, loaded with Load(input, Size())
\* into a new column of the same type, give Load = true and a column with the
\* same size and the same rows, also when the column has no rows.
RoundTripRestoresColumn ==
    last.op = "RoundTrip" => last.ok /\ SameRows(last.out, col)

\* C7: Clear and then a successful Load(input, R) leave the column with R
\* rows, the rows a new column of the same type holds after the same Load,
\* whatever the column held before and however often this is repeated.
ClearThenLoadIsLoadIntoNew ==
    (last.op = "Load" /\ last.cleared >= 0 /\ last.ok) =>
        /\ ColSize(col) = last.rows
        /\ LET new == {f \in ColLoad(Fresh(col), LastInput, last.rows) : f.ok}
           IN /\ new # {}
              /\ \A f \in new : SameRowsRead(col, f.col)

\* An array column that held rows was cleared and then loaded two rows.
ClearThenLoadWitness ==
    /\ last.op = "Load" /\ last.cleared >= 1 /\ last.ok
    /\ col.kind = "Array" /\ last.rows = 2 /\ LastOffset(col) = 2

\* C8: after AppendAsColumn, Append(column), Clear and successful Loads of
\* batches whose offsets are in order, the offsets of an array column are
\* non-decreasing and offset i is the sum of GetSize(0..i).
OffsetsAreCumulative ==
    (col.kind = "Array" /\ flags.sound) =>
        /\ NonDecreasing(col.offsets_.data_)
        /\ \A i \in 0..ColSize(col) - 1 :
              OffsetAt(col, i) = SumSeq([n \in 1..i + 1 |-> GetSize(col, n - 1)])

\* A second batch was loaded behind a row of two elements.
OffsetsAreCumulativeWitness ==
    /\ col.kind = "Array" /\ flags.sound
    /\ last.op = "Load" /\ last.ok /\ last.rows = 1
    /\ ColSize(col) = 2 /\ OffsetAt(col, 0) = 2 /\ OffsetAt(col, 1) = 3

\* C9: in every state of an array column whose inner column the caller has
\* left alone, after Load returned true or false as after every other call,
\* the size of the inner column is the last offset, 0 when there is no row.
InnerSizeIsLastOffset ==
    (col.kind = "Array" /\ ~flags.aliased /\ flags.status = "run") =>
        ColSize(col.data_) = LastOffset(col)

\* C10: a successful Load of a batch of r >= 1 rows, offsets P in order and
\* elements Q, into an array column that holds rows of offsets O, the last
\* one e, and the e elements D, leaves the offsets O followed by P[i] + e and
\* the elements D followed by Q; every new row has the length and the
\* elements, read from Data, it has in the batch.
IncrementalLoadAppendsBatch ==
    [][ ( /\ last'.op = "Load" /\ last'.ok /\ last'.whole /\ last'.rows >= 1
          /\ col.kind = "Array" /\ ColSize(col) >= 1
          /\ ColSize(col.data_) = LastOffset(col)
          /\ NonDecreasing(last'.batch.offsets) )
        => LET O == col.offsets_.data_
               e == LastOffset(col)
               P == last'.batch.offsets
               Q == last'.batch.elems
               start(i) == IF i = 1 THEN 0 ELSE P[i - 1]
           IN /\ col'.offsets_.data_ = O \o [i \in 1..Len(P) |-> P[i] + e]
              /\ Rows(col'.data_) = Rows(col.data_) \o Q
              /\ \A i \in 1..Len(P) :
                    /\ GetSize(col', Len(O) + i - 1) = P[i] - start(i)
                    /\ RowInStorage(col', Len(O) + i - 1)
                    /\ ArrayRow(col', Len(O) + i - 1) = SubSeq(Q, start(i) + 1, P[i])
      ]_vars

\* A batch of one row was loaded behind a row with an element.
IncrementalLoadWitness ==
    /\ last.op = "Load" /\ last.ok /\ last.whole /\ last.rows = 1
    /\ col.kind = "Array" /\ ColSize(col) = 2
    /\ OffsetAt(col, 0) >= 1 /\ OffsetAt(col, 1) > OffsetAt(col, 0)
    /\ ColSize(col.data_) = LastOffset(col)
    /\ RowInStorage(col, 1) /\ ArrayRow(col, 1) = last.batch.elems

\* C11: AppendAsColumn(a), a of the element type, on an array column whose
\* inner column holds the elements of its rows and nothing else, appends one
\* row: Size() grows by one, the new offset is the last offset plus a.Size(),
\* GetSize of the new row is a.Size(), GetAsColumn of the new row holds the
\* elements of a in order, and GetAsColumn of every earlier row is unchanged.
AppendAsColumnAppendsOneRow ==
    [][ ( /\ last'.op = "AppendAsColumn" /\ last'.ok
          /\ ~flags.aliased
          /\ ColSize(col.data_) = LastOffset(col) )
        => LET a == last'.arg
               n == ColSize(col)
           IN /\ ColSize(col') = n + 1
              /\ OffsetAt(col', n) = LastOffset(col) + ColSize(a)
              /\ GetSize(col', n) = ColSize(a)
              /\ SameRows(ArrayGetAsColumn(col', n), a)
              /\ \A i \in 0..n - 1 :
                    Rows(ArrayGetAsColumn(col', i)) = Rows(ArrayGetAsColumn(col, i))
      ]_vars

\* C13: a.Append(b), a and b string columns or fixed string columns of one
\* width, in any state of the two: a.Size() becomes the old size n plus
\* b.Size(), a.At(n + i) is b.At(i) for every i < b.Size(), and a.At(j) is
\* unchanged for every j < n.
AppendColumnAppendsRows ==
    [][ ( /\ last'.op = "Append"
          /\ col.kind \in {"String", "FixedString"}
          /\ TypeIsEqual(col, last'.arg) )
        => LET b == last'.arg
               n == ColSize(col)
           IN /\ ColSize(col') = n + ColSize(b)
              /\ \A i \in 0..ColSize(b) - 1 :
                    /\ RowReadable(col', n + i)
                    /\ RowAt(col', n + i) = RowAt(b, i)
              /\ \A j \in 0..n - 1 : RowAt(col', j) = RowAt(col, j)
      ]_vars

\* C14: Append(column), column of a type that is not equal to the type of the
\* receiver (another class, a fixed string column of another width, an array
\* column of another element type), raises no error and leaves Size() and
\* every row of the receiver as they were.
MismatchedAppendIsNoOp ==
    [][ (last'.op = "Append" /\ ~TypeIsEqual(col, last'.arg))
        => /\ last'.ok
           /\ ColSize(col') = ColSize(col)
           /\ SameRowsRead(col', col)
           /\ Storage(IF col.kind = "Array" THEN col'.data_ ELSE col')
                 = Storage(IF col.kind = "Array" THEN col.data_ ELSE col)
      ]_vars

\* A fixed string column with a row was passed a fixed string column of
\* another width that holds a row.
MismatchedAppendWitness ==
    /\ last.op = "Append" /\ col.kind = "FixedString" /\ ColSize(col) >= 1
    /\ last.arg.kind = "FixedString" /\ last.arg.string_size_ # col.string_size_
    /\ ColSize(last.arg) = 1

\* C15: Append(s) on a fixed string column of width w, in any state (new,
\* appended to, loaded, cleared, returned by Slice), adds one row: the first
\* w bytes of s when s has w bytes or more, s followed by zero bytes up to w
\* when it has fewer; the rows before it are unchanged.
FixedStringAppendPadsOrTruncates ==
    [][ (last'.op = "AppendValue" /\ last'.ok /\ col.kind = "FixedString")
        => LET s == last'.arg
               w == col.string_size_
               n == col.size_
           IN /\ ColSize(col') = n + 1
              /\ RowReadable(col', n)
              /\ RowAt(col', n) = Resize(Take(s, w), w, 0)
              /\ \A j \in 0..n - 1 : RowAt(col', j) = RowAt(col, j)
      ]_vars

\* C16: Slice(begin, len) of a string, fixed string, date or date time column
\* in any state returns a column of the same type, of no rows when begin is
\* Size() or more and of min(len, Size() - begin) rows otherwise, whose row i
\* is row begin + i of the column.
SliceReturnsRows ==
    [][ (last'.op = "Slice" /\ col.kind \in {"String", "FixedString", "Date", "DateTime"})
        => LET begin == last'.arg[1]
               len == last'.arg[2]
               n == ColSize(col)
               size == IF begin >= n THEN 0 ELSE Min(len, n - begin)
           IN /\ TypeIsEqual(col', col)
              /\ ColSize(col') = size
              /\ \A i \in 0..size - 1 :
                    /\ RowReadable(col', i)
                    /\ RowAt(col', i) = RowAt(col, begin + i)
      ]_vars

\* C17: for every column c that is no array column (String, FixedString,
\* Date, DateTime), in any state, the bytes c.Slice(0, c.Size()) saves are the
\* bytes c saves.
SliceSaveIsSave ==
    (col.kind \in {"String", "FixedString", "Date", "DateTime"} /\ Running)
        => ColSave(ColSlice(col, 0, ColSize(col))) = ColSave(col)

\* C18: Slice(begin, len) of an array column raises an error (Unsupported)
\* for every begin and len, and leaves the array column as it was.
ArraySliceRaisesUnsupported ==
    [][ (last'.op = "Slice" /\ col.kind = "Array")
        => (~last'.ok /\ col' = col)
      ]_vars

\* The rows of batch b, sent to a column of the type of c, that are whole in
\* an input one byte short of the batch: all but the last string of a string
\* column; the rows of an array column whose elements all come before the
\* last element, none when the byte is missing from the offsets; none of a
\* fixed string column, whose Load reads the batch in one piece.
CompleteRows(c, b) ==
    CASE c.kind = "String" -> Len(b.elems) - 1
      [] c.kind = "FixedString" -> 0
      [] c.kind = "Array" ->
            IF b.elems = <<>> THEN 0
            ELSE Cardinality({i \in 1..Len(b.offsets) : b.offsets[i] <= Len(b.elems) - 1})

\* C19: when Load(input, rows) returns false because the input ran short, on
\* a string, fixed string or array column, Size() is the size before the call
\* plus the rows that were decoded whole, the rows there were before are
\* unchanged, and the column is well formed: its rows lie in its storage and,
\* for an array column, the offsets are non-decreasing and the size of the
\* inner column is the last offset.
FailedLoadKeepsDecodedRows ==
    [][ ( /\ last'.op = "Load" /\ ~last'.ok /\ last'.rows >= 1
          /\ flags'.status = "run"
          /\ col.kind \in {"String", "FixedString", "Array"}
          /\ col.kind = "Array" =>
                /\ ~flags.aliased
                /\ ColSize(col.data_) = LastOffset(col)
                /\ NonDecreasing(last'.batch.offsets) )
        => /\ ColSize(col') = ColSize(col) + CompleteRows(col, last'.batch)
           /\ \A j \in 0..ColSize(col) - 1 :
                 /\ RowReadable(col', j) = RowReadable(col, j)
                 /\ RowReadable(col, j) => RowAt(col', j) = RowAt(col, j)
           /\ RowsReadable(col')
           /\ col.kind = "Array" =>
                 /\ NonDecreasing(col'.offsets_.data_)
                 /\ ColSize(col'.data_) = LastOffset(col')
      ]_vars

\* C24: the view without a copy.  For every row n of an array column, Data(n)
\* addresses the element of the inner column at the offset of row n - 1 (at 0
\* for row 0) and GetSize(n) is the offset of row n less that offset, so the
\* GetSize(n) elements from Data(n) on are the rows of GetAsColumn(n), in
\* order.  Stated for the columns whose offsets are in order.
ZeroCopyViewIsGetAsColumn ==
    (col.kind = "Array" /\ Running /\ NonDecreasing(col.offsets_.data_))
        => \A n \in 0..ColSize(col) - 1 :
              LET g == ArrayGetAsColumn(col, n)
              IN /\ GetOffset(col, n) = (IF n = 0 THEN 0 ELSE col.offsets_.data_[n])
                 /\ GetSize(col, n) = col.offsets_.data_[n + 1] - GetOffset(col, n)
                 /\ RowInStorage(col, n)
                 /\ ColSize(g) = GetSize(col, n)
                 /\ Rows(g) = ArrayRow(col, n)

\* C25: AppendAsColumn(a) with a column a whose type is not the element type
\* of the array column raises an error and leaves the array column as it was
\* before the call: the offsets, the inner elements and Size().
MismatchedAppendAsColumnThrows ==
    [][ ( /\ last'.op = "AppendAsColumn"
          /\ col.kind = "Array"
          /\ ~TypeIsEqual(col.data_, last'.arg) )
        => /\ ~last'.ok
           /\ col'.offsets_ = col.offsets_
           /\ col'.data_ = col.data_
           /\ ColSize(col') = ColSize(col)
      ]_vars

\* An array column of strings with a row was passed a column of UInt8 that
\* holds a value.
MismatchedAppendAsColumnWitness ==
    /\ last.op = "AppendAsColumn" /\ ~last.ok
    /\ col.kind = "Array" /\ col.data_.kind = "String" /\ ColSize(col) >= 1
    /\ last.arg.kind = "UInt8" /\ ColSize(last.arg) = 1

\* C28: Append(str) on a fixed string column of width w >= 1 returns, in
\* every state, also after Load(input, 0) on the new column and on a column
\* Slice(begin, 0) returned: the loop that grows the buffer ends and the row
\* is added.
FixedStringAppendReturns ==
    [][ (last'.op = "AppendValue" /\ col.kind = "FixedString")
        => /\ last'.ok
           /\ flags'.status = "run"
           /\ ColSize(col') = ColSize(col) + 1
      ]_vars

\* C29: Load(input, 0) on an array column, with rows or without, does
\* nothing: it returns true, reads no byte of input, reads no offset but the
\* ones the column holds, and leaves the offsets and the inner elements as
\* they were.
ArrayLoadOfNoRowsIsNoOp ==
    [][ (last'.op = "Load" /\ last'.rows = 0 /\ col.kind = "Array")
        => /\ last'.ok
           /\ flags'.status = "run"
           /\ col'.offsets_ = col.offsets_
           /\ col'.data_ = col.data_
           /\ \A r \in ArrayLoad(col, last'.input, 0) :
                 ~r.crash /\ r.rest = last'.input
      ]_vars

(***************************************************************************)
(* ColumnNullable (columns/nullable.h): nested_ and nulls_ are the columns *)
(* the constructor was given, nulls_ a ColumnUInt8 of one flag a row.      *)
(***************************************************************************)
ColumnNullable(nested, nulls) == [kind |-> "Nullable", nested_ |-> nested, nulls_ |-> nulls]

\* What a read of a flag at the null pointer may do: end the process, or
\* deliver some byte.
NullReads ==
    {[crash |-> TRUE, value |-> 0]} \cup {[crash |-> FALSE, value |-> g] : g \in 0..MaxGarbage}

\* ColumnNullable::AppendData(v, 1): nulls_->AppendData(0, 1) inserts the byte
\* at the null pointer, then nested_->AppendData(v, 1), which throws in the
\* classes that have no AppendData.  The outcomes [crash, thrown, col].
NullableAppendData(c, v) ==
    { IF r.crash
      THEN [crash |-> TRUE, thrown |-> FALSE, col |-> c]
      ELSE LET n == ColAppendValue(c.nested_, v)
           IN [crash |-> FALSE, thrown |-> n.thrown,
               col |-> [c EXCEPT !.nulls_ = VectorAppendData(c.nulls_, <<r.value>>),
                                 !.nested_ = n.col]]
      : r \in NullReads }

\* ColumnNullable::Size
NullableSize(c) == VectorSize(c.nulls_)

\* ColumnNullable::Clear
NullableClear(c) == [c EXCEPT !.nested_ = ColClear(c.nested_), !.nulls_ = VectorClear(c.nulls_)]

\* ColumnNullable::Load: the flags, then the nested column.
NullableLoad(c, input, rows) ==
    LET n == VectorLoad(c.nulls_, input, rows)
    IN IF ~n.ok
       THEN {[ok |-> FALSE, col |-> [c EXCEPT !.nulls_ = n.col], rest |-> n.rest,
              crash |-> FALSE]}
       ELSE {[ok |-> d.ok, col |-> [c EXCEPT !.nulls_ = n.col, !.nested_ = d.col],
              rest |-> d.rest, crash |-> d.crash]
             : d \in ColLoad(c.nested_, n.rest, rows)}

(***************************************************************************)
(* SpecShare: columns as objects behind references (ColumnRef).  heap maps *)
(* a reference to its object; where a class holds a column by reference    *)
(* (ColumnDate::data_, ColumnArray::data_ and offsets_, the two columns of *)
(* a ColumnNullable) the object holds the reference.  The caller holds a   *)
(* and b, and, of a nullable column a, the nested column ad and the flags  *)
(* ao it constructed a with.                                               *)
(***************************************************************************)
NoObject == [kind |-> "none"]

RECURSIVE Deref(_, _)
\* The column behind reference x with the columns its members refer to.
Deref(h, x) ==
    LET o == h[x]
    IN CASE IsDate(o) -> [o EXCEPT !.data_ = Deref(h, o.data_)]
         [] o.kind = "Array" ->
               [o EXCEPT !.data_ = Deref(h, o.data_), !.offsets_ = Deref(h, o.offsets_)]
         [] o.kind = "Nullable" ->
               [o EXCEPT !.nested_ = Deref(h, o.nested_), !.nulls_ = Deref(h, o.nulls_)]
         [] OTHER -> o

RECURSIVE Store(_, _, _)
\* A method of the column behind x has left it as v: the objects its members
\* refer to are changed in place, the references stay.
Store(h, x, v) ==
    LET o == h[x]
    IN CASE IsDate(o) -> Store(h, o.data_, v.data_)
         [] o.kind = "Array" -> Store(Store(h, o.offsets_, v.offsets_), o.data_, v.data_)
         [] o.kind = "Nullable" -> Store(Store(h, o.nulls_, v.nulls_), o.nested_, v.nested_)
         [] OTHER -> [h EXCEPT ![x] = v]

\* An Append(ColumnRef) of the date classes that takes over the inner vector
\* of its argument: data_ = col->data_.
HeapAppendShares(h, x, y) ==
    IF IsDate(h[x]) /\ h[y].kind = h[x].kind
    THEN [h EXCEPT ![x].data_ = h[y].data_]
    ELSE Store(h, x, ColAppendColumn(Deref(h, x), Deref(h, y)))

\* x->Append(y): ColumnDate::Append appends the rows of col->data_ to the
\* vector data_ refers to; ColumnString::Append inserts into its own storage.
HeapAppend(h, x, y) == Store(h, x, ColAppendColumn(Deref(h, x), Deref(h, y)))

\* x->AppendAsColumn(y)
HeapAppendAsColumn(h, x, y) ==
    LET r == ArrayAppendAsColumn(Deref(h, x), Deref(h, y))
    IN [thrown |-> r.thrown, heap |-> Store(h, x, r.col)]

Objects(a, b, ad, bd, ao) == [a |-> a, b |-> b, ad |-> ad, bd |-> bd, ao |-> ao]

\* The objects after construction: two date columns, two string columns, an
\* array column and a column of its element type (client_ut.cpp:33-35), and a
\* nullable column of UInt64 and of Date over the columns the caller filled
\* with no row or with one (client_ut.cpp:397-413).
ShareHeaps ==
    {Objects([ColumnDate EXCEPT !.data_ = "ad"], [ColumnDate EXCEPT !.data_ = "bd"],
             ColumnVector("UInt16"), ColumnVector("UInt16"), NoObject),
     Objects(ColumnString, ColumnString, NoObject, NoObject, NoObject),
     Objects([ColumnArray("ad") EXCEPT !.offsets_ = "ao"], ColumnVector("UInt64"),
             ColumnVector("UInt64"), NoObject, ColumnVector("UInt64"))}
    \cup {Objects(ColumnNullable("ad", "ao"), NoObject,
                  ColumnVectorOf("UInt64", Fill(n, 1)), NoObject,
                  ColumnVectorOf("UInt8", Fill(n, 0))) : n \in 0..1}
    \cup {Objects(ColumnNullable("ad", "ao"), NoObject,
                  [ColumnDate EXCEPT !.data_ = "bd"], ColumnVectorOf("UInt16", Fill(n, 1)),
                  ColumnVectorOf("UInt8", Fill(n, 0))) : n \in 0..1}

InitShare ==
    /\ heap \in ShareHeaps
    /\ flags = [status |-> "run", appended |-> FALSE]
    /\ last = NoCall
    /\ col = Unused /\ columns_ = Unused /\ info_ = Unused /\ run = Unused

ShareUnused == UNCHANGED <<col, columns_, info_, run>>

\* The values AppendValue is called with on a column of the class of c.
AppendValues(c) ==
    CASE c.kind = "String" -> StringValues
      [] IsDate(c) -> TimeValues
      [] c.kind = "UInt8" -> {0, 1}
      [] OTHER -> {7, 300}

\* The size of the column behind x.
SizeBehind(x) ==
    IF heap[x].kind = "Nullable" THEN NullableSize(Deref(heap, x)) ELSE ColSize(Deref(heap, x))

\* a->Append(b), a and b two columns of one class.
ShareAppend ==
    /\ Running
    /\ heap.a.kind \in {"Date", "String"}
    /\ SizeBehind("a") + SizeBehind("b") <= MaxRows
    /\ heap' = HeapAppend(heap, "a", "b")
    /\ StorageSlots(Deref(heap', "a")) <= StorageCap
    /\ flags' = [flags EXCEPT !.appended = TRUE]
    /\ last' = [CallWith("Append", TRUE, "b") EXCEPT !.out = "a"]
    /\ ShareUnused

\* a->AppendAsColumn(b), b the column the test appends to between the calls.
ShareAppendAsColumn ==
    /\ Running
    /\ heap.a.kind = "Array"
    /\ SizeBehind("a") < MaxRows
    /\ SizeBehind("ad") <= MaxRows
    /\ LET r == HeapAppendAsColumn(heap, "a", "b")
       IN /\ heap' = r.heap
          /\ last' = [CallWith("AppendAsColumn", ~r.thrown, "b") EXCEPT !.out = "a"]
    /\ flags' = [flags EXCEPT !.appended = TRUE]
    /\ ShareUnused

\* x->AppendValue(v) through a reference the caller holds: a or b of the
\* date and string columns, b of the array column, the nested column or the
\* flags of the nullable column.
CallerAppendValue ==
    /\ Running
    /\ \E x \in {"a", "b", "ad", "ao"} :
          /\ heap[x].kind \notin {"none", "Array", "Nullable"}
          /\ x = "ad" => heap.a.kind = "Nullable"
          /\ x = "ao" => heap.a.kind = "Nullable"
          /\ SizeBehind(x) < MaxRows
          /\ \E v \in AppendValues(heap[x]) :
                /\ heap' = Store(heap, x, ColAppendValue(Deref(heap, x), v).col)
                /\ last' = [CallWith("AppendValue", TRUE, v) EXCEPT !.out = x]
    /\ UNCHANGED flags
    /\ ShareUnused

\* x->Clear(), x one of a and b.
CallerClear ==
    /\ Running
    /\ \E x \in {"a", "b"} :
          /\ heap[x].kind # "none"
          /\ heap' = Store(heap, x, IF heap[x].kind = "Nullable"
                                    THEN NullableClear(Deref(heap, x))
                                    ELSE ColClear(Deref(heap, x)))
          /\ last' = [Call("Clear", TRUE) EXCEPT !.out = x]
    /\ UNCHANGED flags
    /\ ShareUnused

\* a->AppendValue(v) of the nullable column a: AppendData(&v, 1).
NullableAppendValue ==
    /\ Running
    /\ heap.a.kind = "Nullable"
    /\ SizeBehind("a") < MaxRows /\ SizeBehind("ad") < MaxRows
    /\ \E v \in AppendValues(heap.ad) :
       \E r \in NullableAppendData(Deref(heap, "a"), v) :
          /\ heap' = Store(heap, "a", r.col)
          /\ flags' = [flags EXCEPT !.status = IF r.crash THEN "crash" ELSE "run"]
          /\ last' = [CallWith("AppendData", ~r.thrown, v) EXCEPT !.out = "a"]
    /\ ShareUnused

\* a->Load(input, 1) of the nullable column a, input a flag and a value.
NullableLoadRows ==
    /\ Running
    /\ heap.a.kind = "Nullable"
    /\ SizeBehind("a") < MaxRows /\ SizeBehind("ad") < MaxRows
    /\ \E f \in {0, 1} :
       \E v \in AppendValues(heap.ad) :
          LET nested == ColAppendValue(Fresh(Deref(heap, "ad")), v).col
              input == VectorSave(ColumnVectorOf("UInt8", <<f>>)) \o ColSave(nested)
          IN \E r \in NullableLoad(Deref(heap, "a"), input, 1) :
                /\ heap' = Store(heap, "a", r.col)
                /\ last' = [Call("Load", r.ok) EXCEPT !.input = input, !.rows = 1, !.out = "a"]
    /\ UNCHANGED flags
    /\ ShareUnused

NextShare ==
    \/ ShareAppend
    \/ ShareAppendAsColumn
    \/ CallerAppendValue
    \/ CallerClear
    \/ NullableAppendValue
    \/ NullableLoadRows

SpecShare == InitShare /\ [][NextShare]_vars

(***************************************************************************)
(* Claims about SpecShare.                                                 *)
(***************************************************************************)
\* C12: Append copies.  Once a->Append(b) or a->AppendAsColumn(b) has been
\* called, an append to b or a Clear of b leaves the size and every row of a
\* as they were, and every call that changes a (an append of a value, a
\* further Append(b) or AppendAsColumn(b), Clear) leaves b as it was.
AppendedColumnsAreIndependent ==
    [][ flags.appended
        => /\ last'.out = "b" =>
                 SameRowsRead(Deref(heap', "a"), Deref(heap, "a"))
           /\ last'.out = "a" => Deref(heap', "b") = Deref(heap, "b")
      ]_vars

\* The test's calls (client_ut.cpp:35-40), and then a Clear of the column
\* that was appended: the array column holds the rows [7] and [7, 300].
AppendedColumnsWitness ==
    /\ flags.status = "run" /\ flags.appended
    /\ last.op = "Clear" /\ last.out = "b"
    /\ heap.a.kind = "Array" /\ SizeBehind("a") = 2
    /\ ArrayRow(Deref(heap, "a"), 0) = <<7>>
    /\ ArrayRow(Deref(heap, "a"), 1) = <<7, 300>>

\* C20: in every state of a nullable column, from its construction with the
\* nested column and the flags the caller supplies, through AppendData, Load,
\* Clear and the appends the caller makes through its own references,
\* nested.Size() = nulls.Size() = Size().
NullableSizesAgree ==
    (Running /\ heap.a.kind = "Nullable")
        => /\ SizeBehind("ad") = SizeBehind("ao")
           /\ SizeBehind("ao") = SizeBehind("a")

\* C21: AppendData(v, 1) of a nullable column appends the value at v to the
\* nested column and one flag equal to 0 to the flags: the call returns, Size()
\* grows by one, IsNull of the new row is false, and the rows and the flags
\* there were are unchanged.
NullableAppendDataAppendsRow ==
    [][ ( /\ last'.op = "AppendData"
          /\ heap.a.kind = "Nullable"
          /\ heap.ad.kind = "UInt64"
          /\ SizeBehind("ad") = SizeBehind("ao") )
        => LET c == Deref(heap, "a")
               d == Deref(heap', "a")
           IN /\ flags'.status = "run" /\ last'.ok
              /\ NullableSize(d) = NullableSize(c) + 1
              /\ d.nulls_.data_ = Append(c.nulls_.data_, 0)
              /\ d.nested_.data_ = Append(c.nested_.data_, last'.arg)
      ]_vars

(***************************************************************************)
(* SpecTime: the date classes over the whole range of std::time_t.  A time *)
(* of 64 bits is held as the days and the second of the day it is made of  *)
(* (its value is day * 86400 + sec, sec in 0..86399), since a time beyond  *)
(* 2^31 is no integer of TLC.  The days of a ColumnDate are integers; the  *)
(* uint32_t seconds of a ColumnDateTime are held as times below 2^32.      *)
(*   col    the column                                                     *)
(*   flags  times: the times appended, in order                            *)
(*   last   the last call; of At, the row and the time returned            *)
(***************************************************************************)
Time(day, sec) == [day |-> day, sec |-> sec]

\* a - b
TimeSub(a, b) ==
    IF a.sec >= b.sec
    THEN Time(a.day - b.day, a.sec - b.sec)
    ELSE Time(a.day - b.day - 1, a.sec + SecondsPerDay - b.sec)

\* a < b
TimeLess(a, b) == a.day < b.day \/ (a.day = b.day /\ a.sec < b.sec)

\* 2^32 = 49710 * 86400 + 23296
UInt32Modulus == Time(49710, 23296)

\* The days whose seconds are an int: INT_MAX div 86400.
IntMaxDays == 2147483647 \div SecondsPerDay

\* A cast that keeps the time as it is.
CastUInt32TimeKeeps(t) == t

RECURSIVE CastUInt32Time(_)
\* static_cast<uint32_t> of a time that is not negative: the time modulo 2^32.
CastUInt32Time(t) ==
    IF TimeLess(t, UInt32Modulus) THEN t ELSE CastUInt32Time(TimeSub(t, UInt32Modulus))

\* ColumnDate::Append(const std::time_t& value), value not negative:
\* value / 86400 is the day of the time.
DateAppendTime(c, value) == [c EXCEPT !.data_ = VectorAppend(c.data_, CastUInt16(value.day))]

\* ColumnDate::At: data_->At(n) is a uint16_t, promoted to int, and 86400 is
\* an int, so the product is an int.  Beyond INT_MAX the multiplication
\* overflows, which is undefined: the build delivers the product in 64 bits
\* or the product of 32 bits, sign-extended, which is 2^32 less.
DateAtTime(c, n) ==
    LET days == c.data_.data_[n + 1]
    IN IF days <= IntMaxDays
       THEN {Time(days, 0)}
       ELSE {Time(days, 0), TimeSub(Time(days, 0), UInt32Modulus)}

\* ColumnDateTime::Append(const std::time_t& value)
DateTimeAppendTime(c, value) == [c EXCEPT !.data_ = VectorAppend(c.data_, CastUInt32Time(value))]

\* ColumnDateTime::At: the uint32_t as a time.
DateTimeAtTime(c, n) == {c.data_.data_[n + 1]}

\* Append(value) of the class of c.
TimeAppendTo(c, value) ==
    IF c.kind = "Date" THEN DateAppendTime(c, value) ELSE DateTimeAppendTime(c, value)

RECURSIVE TimeAppendData(_, _)
\* AppendData(const void* v, size_t n) of both classes: Append of each of
\* the n times at v.
TimeAppendData(c, v) ==
    IF v = <<>> THEN c ELSE TimeAppendData(TimeAppendTo(c, Head(v)), Tail(v))

\* The times appended: the first and the last second of the days 0, INT_MAX
\* div 86400 and the day after, the day of 2^32 with the seconds before and at
\* 2^32, the last day of 16 bits and a day beyond.
WideTimes ==
    {Time(d, s) : d \in {0, IntMaxDays, IntMaxDays + 1, 65535, 65537}, s \in {0, SecondsPerDay - 1}}
    \cup {Time(49710, s) : s \in {0, 23295, 23296}}

InitTime ==
    /\ col \in {ColumnDate, ColumnDateTime}
    /\ flags = [status |-> "run", times |-> <<>>]
    /\ last = NoCall
    /\ heap = Unused /\ columns_ = Unused /\ info_ = Unused /\ run = Unused

\* Append(t)
TimeAppend ==
    /\ Len(flags.times) < MaxRows
    /\ \E t \in WideTimes :
          /\ col' = TimeAppendTo(col, t)
          /\ flags' = [flags EXCEPT !.times = Append(@, t)]
          /\ last' = CallWith("Append", TRUE, t)
    /\ BlockUnused

\* AppendValue(t), t a std::time_t: AppendData(&t, 1)
TimeAppendValue ==
    /\ Len(flags.times) < MaxRows
    /\ \E t \in WideTimes :
          /\ col' = TimeAppendData(col, <<t>>)
          /\ flags' = [flags EXCEPT !.times = Append(@, t)]
          /\ last' = CallWith("AppendValue", TRUE, t)
    /\ BlockUnused

\* At(n), n < Size()
TimeAt ==
    /\ \E n \in 0..DateSize(col) - 1 :
       \E r \in IF col.kind = "Date" THEN DateAtTime(col, n) ELSE DateTimeAtTime(col, n) :
          last' = [CallWith("At", TRUE, n) EXCEPT !.out = r]
    /\ UNCHANGED <<col, flags>>
    /\ BlockUnused

NextTime ==
    \/ TimeAppend
    \/ TimeAppendValue
    \/ TimeAt

SpecTime == InitTime /\ [][NextTime]_vars

(***************************************************************************)
(* Claims about SpecTime.                                                  *)
(***************************************************************************)
\* C22: a ColumnDate holds days in 16 bits.  At of a row appended as the
\* time t returns ((t div 86400) mod 2^16) * 86400; so for every t from 0 to
\* below 65536 * 86400 it returns the start of the day of t, which is t where
\* t is a multiple of 86400.
DateAtIsStartOfDay ==
    (last.op = "At" /\ col.kind = "Date")
        => LET t == flags.times[last.arg + 1]
           IN /\ last.out = Time(t.day % 65536, 0)
              /\ t.day < 65536 => last.out = Time(t.day, 0)
              /\ (t.day < 65536 /\ t.sec = 0) => last.out = t

\* C23: a ColumnDateTime holds seconds in 32 bits.  At of a row appended, by
\* Append or by AppendValue, as the time t returns t mod 2^32; so every t
\* from 0 to below 2^32 is returned as it was appended, row by row in the
\* order of the appends.
DateTimeAtIsTimeMod32 ==
    (last.op = "At" /\ col.kind = "DateTime")
        => LET t == flags.times[last.arg + 1]
           IN /\ DateSize(col) = Len(flags.times)
              /\ TimeLess(t, UInt32Modulus) => last.out = t
              /\ ~TimeLess(t, UInt32Modulus) => last.out = TimeSub(t, UInt32Modulus)

\* The last second below 2^32 and then, by AppendValue, the second 2^32
\* appended: At(0) has returned the first as it is.
DateTimeAtWitness ==
    /\ last.op = "At" /\ col.kind = "DateTime"
    /\ flags.times = <<Time(49710, 23295), Time(49710, 23296)>>
    /\ col.data_.data_[2] = Time(0, 0)
    /\ last.arg = 0 /\ last.out = Time(49710, 23295)

(***************************************************************************)
(* SpecReserve: ReserveRows.  The capacity of a std::vector is no part of  *)
(* the column records above, which hold the elements; here it is kept       *)
(* beside the column.                                                      *)
(*   col    the column                                                     *)
(*   flags  capacity: the capacity of the vector that holds the elements   *)
(*          (data_, of an array column that of its inner column) and of    *)
(*          the offsets of an array column                                  *)
(*   last   the last call; of ReserveRows, rows and whether it returned    *)
(***************************************************************************)
\* sizeof of the element of the vector that holds the elements of c.
RECURSIVE ElementBytes(_)
ElementBytes(c) ==
    CASE IsVector(c) -> SizeOf(c.kind)
      [] c.kind = "String" -> 32
      [] c.kind = "FixedString" -> 1
      [] IsDate(c) -> SizeOf(c.data_.kind)
      [] c.kind = "Array" -> ElementBytes(c.data_)

\* std::vector<T>::max_size(): PTRDIFF_MAX / sizeof(T)
VectorMaxSize(bytes) == (SizeTModulus \div 2 - 1) \div bytes

\* std::vector<T>::reserve(n): throws std::length_error beyond max_size(),
\* else the capacity is n at least; the elements stay.
Reserve(capacity, n, bytes) ==
    IF n > VectorMaxSize(bytes)
    THEN [thrown |-> TRUE, capacity |-> capacity]
    ELSE [thrown |-> FALSE, capacity |-> IF n > capacity THEN n ELSE capacity]

\* ColumnVector<T>::ReserveRows: data_.reserve(rows)
VectorReserveRows(c, capacity, rows) ==
    LET r == Reserve(capacity.data_, rows, ElementBytes(c))
    IN [thrown |-> r.thrown, col |-> c, capacity |-> [capacity EXCEPT !.data_ = r.capacity]]

\* ColumnString::ReserveRows
StringReserveRows(c, capacity, rows) ==
    LET r == Reserve(capacity.data_, rows, ElementBytes(c))
    IN [thrown |-> r.thrown, col |-> c, capacity |-> [capacity EXCEPT !.data_ = r.capacity]]

\* A ReserveRows that resizes the buffer.
FixedStringReserveRowsResizes(c, capacity, rows) ==
    LET n == (rows * c.string_size_) % SizeTModulus
        r == Reserve(capacity.data_, n, ElementBytes(c))
    IN [thrown |-> r.thrown,
        col |-> IF r.thrown THEN c ELSE [c EXCEPT !.data_ = Resize(c.data_, n, 0)],
        capacity |-> [capacity EXCEPT !.data_ = r.capacity]]

\* ColumnFixedString::ReserveRows: data_.reserve(rows * string_size_), the
\* product in size_t.
FixedStringReserveRows(c, capacity, rows) ==
    LET r == Reserve(capacity.data_, (rows * c.string_size_) % SizeTModulus, ElementBytes(c))
    IN [thrown |-> r.thrown, col |-> c, capacity |-> [capacity EXCEPT !.data_ = r.capacity]]

\* ColumnDate::ReserveRows and ColumnDateTime::ReserveRows:
\* data_->ReserveRows(rows)
DateReserveRows(c, capacity, rows) ==
    LET r == VectorReserveRows(c.data_, capacity, rows)
    IN [thrown |-> r.thrown, col |-> [c EXCEPT !.data_ = r.col], capacity |-> r.capacity]

\* ReserveRows of a column that is no array column.
InnerReserveRows(c, capacity, rows) ==
    CASE IsVector(c) -> VectorReserveRows(c, capacity, rows)
      [] c.kind = "String" -> StringReserveRows(c, capacity, rows)
      [] c.kind = "FixedString" -> FixedStringReserveRows(c, capacity, rows)
      [] IsDate(c) -> DateReserveRows(c, capacity, rows)

\* ColumnArray::ReserveRows: offsets_->ReserveRows(rows), then
\* data_->ReserveRows(rows * N_ELEMENT), N_ELEMENT = 2; a throw of the first
\* ends the call.
ArrayReserveRows(c, capacity, rows) ==
    LET o == Reserve(capacity.offsets_, rows, SizeOf("UInt64"))
        d == InnerReserveRows(c.data_, [capacity EXCEPT !.offsets_ = o.capacity],
                              (rows * 2) % SizeTModulus)
    IN IF o.thrown
       THEN [thrown |-> TRUE, col |-> c, capacity |-> capacity]
       ELSE [thrown |-> d.thrown, col |-> [c EXCEPT !.data_ = d.col], capacity |-> d.capacity]

\* Column::ReserveRows
ColReserveRows(c, capacity, rows) ==
    IF c.kind = "Array" THEN ArrayReserveRows(c, capacity, rows)
    ELSE InnerReserveRows(c, capacity, rows)

\* The elements the vectors of c hold.
VectorLengths(c) ==
    [data_ |-> IF c.kind = "Array" THEN Len(Storage(c.data_)) * (IF c.data_.kind = "FixedString" THEN c.data_.string_size_ ELSE 1)
               ELSE IF c.kind = "FixedString" THEN Len(c.data_)
               ELSE Len(Storage(c)),
     offsets_ |-> IF c.kind = "Array" THEN Len(c.offsets_.data_) ELSE 0]

\* The capacities after a call that left the column as c: those there were,
\* grown to hold the elements.
Grown(capacity, c) ==
    [v \in {"data_", "offsets_"} |->
        IF VectorLengths(c)[v] > capacity[v] THEN VectorLengths(c)[v] ELSE capacity[v]]

\* The arguments of ReserveRows: none, one, more than the model's rows, and
\* SIZE_MAX.
ReserveCounts == {0, 1, MaxRows + 1, SizeTModulus - 1}

InitReserve ==
    /\ col \in NewColumns
    /\ flags = [status |-> "run", capacity |-> Grown([data_ |-> 0, offsets_ |-> 0], col)]
    /\ last = NoCall
    /\ heap = Unused /\ columns_ = Unused /\ info_ = Unused /\ run = Unused

\* ReserveRows(rows)
ReserveRows ==
    /\ \E rows \in ReserveCounts :
          LET r == ColReserveRows(col, flags.capacity, rows)
          IN /\ col' = r.col
             /\ flags' = [flags EXCEPT !.capacity = r.capacity]
             /\ last' = CallWith("ReserveRows", ~r.thrown, rows)
    /\ BlockUnused

\* Append(column), column with a row or two.
ReserveAppend ==
    /\ \E other \in BuiltColumns(col) :
          /\ ColSize(col) + ColSize(other) <= MaxRows
          /\ col' = ColAppendColumn(col, other)
          /\ StorageSlots(col') <= StorageCap
          /\ last' = CallWith("Append", TRUE, other)
    /\ flags' = [flags EXCEPT !.capacity = Grown(@, col')]
    /\ BlockUnused

\* Load(input, rows), input the bytes a column with a row or two saves.
ReserveLoad ==
    /\ \E other \in BuiltColumns(col) :
          /\ ColSize(other) >= 1
          /\ ColSize(col) + ColSize(other) <= MaxRows
          /\ \E r \in ColLoad(col, ColSave(other), ColSize(other)) :
                /\ r.ok /\ ~r.crash
                /\ col' = r.col
                /\ StorageSlots(col') <= StorageCap
                /\ last' = [Call("Load", TRUE) EXCEPT !.input = ColSave(other),
                                                      !.rows = ColSize(other)]
    /\ flags' = [flags EXCEPT !.capacity = Grown(@, col')]
    /\ BlockUnused

\* Clear()
ReserveClear ==
    /\ col' = ColClear(col)
    /\ last' = Call("Clear", TRUE)
    /\ UNCHANGED flags
    /\ BlockUnused

NextReserve ==
    \/ ReserveRows
    \/ ReserveAppend
    \/ ReserveLoad
    \/ ReserveClear

SpecReserve == InitReserve /\ [][NextReserve]_vars

(***************************************************************************)
(* Claims about SpecReserve.                                               *)
(***************************************************************************)
\* C26: ReserveRows(rows), for every rows and every column (String,
\* FixedString, Date, DateTime, Array) in any state, leaves Size() and every
\* row as they were, and every call after it does what it does without the
\* reserve: the column the calls read is the column of before.
ReserveRowsKeepsColumn ==
    [][ last'.op = "ReserveRows"
        => /\ col' = col
           /\ ColSize(col') = ColSize(col)
           /\ SameRowsRead(col', col)
           /\ ColSave(col') = ColSave(col)
           /\ ColClear(col') = ColClear(col)
           /\ \A other \in BuiltColumns(col) :
                 ColAppendColumn(col', other) = ColAppendColumn(col, other)
      ]_vars

\* An array column with a row was reserved MaxRows + 1 rows: its offsets have
\* room for them and its inner column for twice as many.
ReserveRowsWitness ==
    /\ last.op = "ReserveRows" /\ last.ok /\ last.arg = MaxRows + 1
    /\ col.kind = "Array" /\ col.data_.kind = "UInt64" /\ ColSize(col) = 1
    /\ flags.capacity.offsets_ = MaxRows + 1
    /\ flags.capacity.data_ = 2 * (MaxRows + 1)

(***************************************************************************)
(* SpecAppend: ColumnArray::Append(column) iteration by iteration, column  *)
(* another array column or the array column itself (this).                 *)
(*   col    the array column                                               *)
(*   flags  pc: "idle", or "loop" while Append runs; this: column is the   *)
(*          column itself; column: the argument when it is not; i: the     *)
(*          loop's counter; n: Size() when Append was called; returned:    *)
(*          the last Append has returned                                   *)
(***************************************************************************)
\* col of ColumnArray::Append: the column the reference leads to.
AppendArgument == IF flags.this THEN col ELSE flags.column

\* The iterations the model follows a loop for: one more than a loop over
\* the rows there were would make.
LoopCap == 2 * MaxRows + 1

InitAppend ==
    /\ col \in {ColumnArray(ColumnVector("UInt64")), ColumnArray(ColumnString)}
    /\ flags = [status |-> "run", pc |-> "idle", this |-> FALSE, column |-> Fresh(col),
                i |-> 0, n |-> 0, returned |-> FALSE]
    /\ last = NoCall
    /\ heap = Unused /\ columns_ = Unused /\ info_ = Unused /\ run = Unused

\* AppendAsColumn(array), array of the element type with none, one or two
\* elements.
AppendRow ==
    /\ flags.pc = "idle"
    /\ ColSize(col) < MaxRows
    /\ \E a \in BuiltColumns(col.data_) :
          /\ col' = ArrayAppendAsColumn(col, a).col
          /\ last' = CallWith("AppendAsColumn", TRUE, a)
    /\ flags' = [flags EXCEPT !.returned = FALSE]
    /\ BlockUnused

\* Append(column) is called: the cast and the comparison of the element types
\* succeed, i = 0.
AppendCall ==
    /\ flags.pc = "idle"
    /\ ColSize(col) <= MaxRows
    /\ \E this \in BOOLEAN :
       \E other \in IF this THEN {Fresh(col)} ELSE BuiltColumns(col) :
          flags' = [flags EXCEPT !.pc = "loop", !.this = this, !.column = other,
                                 !.i = 0, !.n = ColSize(col), !.returned = FALSE]
    /\ last' = Call("Append", TRUE)
    /\ UNCHANGED col
    /\ BlockUnused

\* i < col->Size(): AppendAsColumn(col->GetAsColumn(i)); ++i
AppendIteration ==
    /\ flags.pc = "loop"
    /\ flags.i < ColSize(AppendArgument)
    /\ flags.i < LoopCap
    /\ col' = ArrayAppendAsColumn(col, ArrayGetAsColumn(AppendArgument, flags.i)).col
    /\ flags' = [flags EXCEPT !.i = @ + 1]
    /\ UNCHANGED last
    /\ BlockUnused

\* i >= col->Size(): Append returns.
AppendReturn ==
    /\ flags.pc = "loop"
    /\ ~(flags.i < ColSize(AppendArgument))
    /\ flags' = [flags EXCEPT !.pc = "idle", !.returned = TRUE]
    /\ UNCHANGED <<col, last>>
    /\ BlockUnused

NextAppend ==
    \/ AppendRow
    \/ AppendCall
    \/ AppendIteration
    \/ AppendReturn

SpecAppend == InitAppend /\ [][NextAppend]_vars

(***************************************************************************)
(* Claims about SpecAppend.                                                *)
(***************************************************************************)
\* C30: Append(column) of an array column ends for every column, the array
\* column itself included: a.Append(a) with n >= 1 rows makes the n
\* iterations of the rows there were and returns, and a then holds 2n rows,
\* the last n equal to the first n.
ArrayAppendSelfTerminates ==
    (flags.this /\ flags.n >= 1)
        => /\ flags.pc = "loop" => (flags.i <= flags.n /\ ColSize(col) <= 2 * flags.n)
           /\ flags.returned =>
                 /\ ColSize(col) = 2 * flags.n
                 /\ \A j \in 0..flags.n - 1 :
                       ArrayRow(col, flags.n + j) = ArrayRow(col, j)

(***************************************************************************)
(* Block (block.cpp).  columns_ is the list of the entries (name, column), *)
(* column the reference to a column object: an index of heap, which holds  *)
(* the column objects the block and its caller share.  info_ is the header.*)
(***************************************************************************)
\* struct BlockInfo, with its default member values.
BlockInfo == [is_overflows |-> 0, bucket_num |-> -1]

\* struct ColumnItem
ColumnItem(name, column) == [name |-> name, column |-> column]

\* Block::GetColumnCount
BlockGetColumnCount(columns) == Len(columns)

\* Block::GetRowCount
BlockGetRowCount(columns, objects) ==
    IF columns = <<>> THEN 0 ELSE ColSize(objects[columns[1].column])

\* AppendColumn without the comparison of the sizes.
BlockAppendColumnUnchecked(columns, objects, name, c) ==
    [thrown |-> FALSE, columns_ |-> Append(columns, ColumnItem(name, c))]

\* AppendColumn that compares with the size of the last column.
BlockAppendColumnLast(columns, objects, name, c) ==
    IF Len(columns) > 0
       /\ ColSize(objects[c]) # ColSize(objects[columns[Len(columns)].column])
    THEN [thrown |-> TRUE, columns_ |-> columns]
    ELSE [thrown |-> FALSE, columns_ |-> Append(columns, ColumnItem(name, c))]

\* Block::AppendColumn: throws (thrown) when the block has columns and the
\* size of c is not the size of the first of them.
BlockAppendColumn(columns, objects, name, c) ==
    IF Len(columns) > 0
       /\ ColSize(objects[c]) # ColSize(objects[columns[1].column])
    THEN [thrown |-> TRUE, columns_ |-> columns]
    ELSE [thrown |-> FALSE, columns_ |-> Append(columns, ColumnItem(name, c))]

\* Block::operator[]
BlockAt(columns, idx) ==
    IF idx < Len(columns)
    THEN [thrown |-> FALSE, value |-> columns[idx + 1].column]
    ELSE [thrown |-> TRUE, value |-> 0]

\* Block::GetColumnName: columns_.at(idx).name
BlockGetColumnName(columns, idx) ==
    IF idx < Len(columns)
    THEN [thrown |-> FALSE, value |-> columns[idx + 1].name]
    ELSE [thrown |-> TRUE, value |-> ""]

\* Block::SetColumnName, for idx < columns_.size()
BlockSetColumnName(columns, idx, name) == [columns EXCEPT ![idx + 1].name = name]

\* Block::Clear, the header
BlockClearInfo(info) == [info EXCEPT !.bucket_num = -1, !.is_overflows = 0]

\* Block::Clear, col.name.resize(0) of every entry
BlockClearNames(columns) == [i \in 1..Len(columns) |-> [columns[i] EXCEPT !.name = ""]]

\* A loop that clears the column of the first entry only.
BlockClearFirstColumn(columns, objects) ==
    IF columns = <<>> THEN objects
    ELSE [objects EXCEPT ![columns[1].column] = ColClear(objects[columns[1].column])]

RECURSIVE BlockClearColumns(_, _)
\* Block::Clear, col.column->Clear() of every entry
BlockClearColumns(columns, objects) ==
    IF columns = <<>> THEN objects
    ELSE BlockClearColumns(Tail(columns),
            [objects EXCEPT ![Head(columns).column] = ColClear(objects[Head(columns).column])])

(***************************************************************************)
(* Spec: a block, the column objects its caller made, and the calls of the *)
(* caller on the block and on the columns.                                 *)
(*   heap      the column objects                                          *)
(*   columns_  the entries of the block                                    *)
(*   info_     the header of the block                                     *)
(*   flags     touched: a column of the block got a row through a handle   *)
(*                      since the last Clear;                              *)
(*             appended: the entries as AppendColumn added them, with the  *)
(*                      names SetColumnName gave them since                *)
(*   last      the last call: its name, arguments and result, and the      *)
(*             entries, header and row count of the block before it        *)
(***************************************************************************)
\* The columns the caller makes: one object of each of two classes.
CallerColumns == <<ColumnVector("UInt64"), ColumnString>>

Handles == DOMAIN CallerColumns

ColumnNames == {"a", "b"}

\* The header a received block carries.
ReceivedInfo == [is_overflows |-> 1, bucket_num |-> 3]

\* The value the caller appends to a column of the class of c.
HandleValue(c) == IF c.kind = "String" THEN <<1, 2, 3>> ELSE 7

NoBlockCall ==
    [op |-> "new", thrown |-> FALSE, idx |-> 0, name |-> "", column |-> 0, value |-> 0,
     columns_ |-> <<>>, info_ |-> BlockInfo, rows |-> 0]

BlockCall(op) ==
    [NoBlockCall EXCEPT !.op = op, !.columns_ = columns_, !.info_ = info_,
                        !.rows = BlockGetRowCount(columns_, heap)]

Init ==
    /\ heap = CallerColumns
    /\ columns_ = <<>>
    /\ info_ = BlockInfo
    /\ flags = [touched |-> FALSE, appended |-> <<>>]
    /\ last = NoBlockCall
    /\ col = Unused /\ run = Unused

ColumnUnused == UNCHANGED <<col, run>>

InBlock(h) == \E i \in 1..Len(columns_) : columns_[i].column = h

\* block.AppendColumn(name, col)
CallAppendColumn ==
    /\ \E name \in ColumnNames, h \in Handles :
          LET r == BlockAppendColumn(columns_, heap, name, h)
          IN /\ r.thrown \/ Len(columns_) < MaxBlockCols
             /\ columns_' = r.columns_
             /\ flags' = IF r.thrown THEN flags
                         ELSE [flags EXCEPT
                                 !.appended = Append(flags.appended, ColumnItem(name, h))]
             /\ last' = [BlockCall("AppendColumn") EXCEPT
                           !.thrown = r.thrown, !.name = name, !.column = h]
    /\ UNCHANGED <<heap, info_>>
    /\ ColumnUnused

\* block.Clear()
CallClear ==
    /\ info_' = BlockClearInfo(info_)
    /\ columns_' = BlockClearNames(columns_)
    /\ heap' = BlockClearColumns(columns_, heap)
    /\ flags' = [flags EXCEPT !.touched = FALSE]
    /\ last' = BlockCall("Clear")
    /\ ColumnUnused

\* block[idx]
CallAt ==
    /\ \E idx \in 0..MaxBlockCols :
          LET r == BlockAt(columns_, idx)
          IN last' = [BlockCall("operator[]") EXCEPT
                        !.thrown = r.thrown, !.idx = idx, !.value = r.value]
    /\ UNCHANGED <<heap, columns_, info_, flags>>
    /\ ColumnUnused

\* block.GetColumnName(idx)
CallGetColumnName ==
    /\ \E idx \in 0..MaxBlockCols :
          LET r == BlockGetColumnName(columns_, idx)
          IN last' = [BlockCall("GetColumnName") EXCEPT
                        !.thrown = r.thrown, !.idx = idx, !.value = r.value]
    /\ UNCHANGED <<heap, columns_, info_, flags>>
    /\ ColumnUnused

\* The client names an entry of the block it receives.
CallSetColumnName ==
    /\ \E idx \in 0..Len(columns_) - 1, name \in ColumnNames :
          /\ columns_[idx + 1].name # name
          /\ columns_' = BlockSetColumnName(columns_, idx, name)
          /\ flags' = [flags EXCEPT !.appended = BlockSetColumnName(flags.appended, idx, name)]
          /\ last' = [BlockCall("SetColumnName") EXCEPT !.idx = idx, !.name = name]
    /\ UNCHANGED <<heap, info_>>
    /\ ColumnUnused

\* The client stores the header of the block it receives.
ReceiveInfo ==
    /\ info_ # ReceivedInfo
    /\ info_' = ReceivedInfo
    /\ last' = BlockCall("ReceiveInfo")
    /\ UNCHANGED <<heap, columns_, flags>>
    /\ ColumnUnused

\* column->AppendValue(v) through a handle: one the caller kept from the
\* construction of the column, or one operator[] returned.
HandleAppend ==
    /\ \E h \in Handles :
          /\ ColSize(heap[h]) < MaxRows
          /\ heap' = [heap EXCEPT ![h] = ColAppendValue(heap[h], HandleValue(heap[h])).col]
          /\ flags' = [flags EXCEPT !.touched = flags.touched \/ InBlock(h)]
          /\ last' = [BlockCall("AppendValue") EXCEPT !.column = h]
    /\ UNCHANGED <<columns_, info_>>
    /\ ColumnUnused

Next ==
    \/ CallAppendColumn
    \/ CallClear
    \/ CallAt
    \/ CallGetColumnName
    \/ CallSetColumnName
    \/ ReceiveInfo
    \/ HandleAppend

Spec == Init /\ [][Next]_vars

(***************************************************************************)
(* Claims about Spec.                                                      *)
(***************************************************************************)
SizeAt(i) == ColSize(heap[columns_[i].column])

GetRowCount == BlockGetRowCount(columns_, heap)

\* C1 as stated: in every state of a block, appends through handles among
\* the calls, all columns have the same size, and GetRowCount() is that size
\* (0 without columns).
ColumnsHaveSameSize ==
    /\ \A i, j \in 1..Len(columns_) : SizeAt(i) = SizeAt(j)
    /\ \A i \in 1..Len(columns_) : GetRowCount = SizeAt(i)
    /\ columns_ = <<>> => GetRowCount = 0

\* C1: GetRowCount() is the size of the first column, 0 without columns; all
\* columns have that size in every state AppendColumn and Clear lead to, up
\* to the first row a column of the block gets through a handle, and again
\* from the next Clear on.
ColumnsHaveSameSizeUntilTouched ==
    /\ GetRowCount = IF columns_ = <<>> THEN 0 ELSE SizeAt(1)
    /\ ~flags.touched => \A i \in 1..Len(columns_) : SizeAt(i) = GetRowCount

\* AppendColumn has added a second column, of two rows, to a block of two
\* rows.
ColumnsHaveSameSizeWitness ==
    /\ ~flags.touched
    /\ last.op = "AppendColumn" /\ ~last.thrown
    /\ Len(columns_) = 2 /\ columns_[1].column # columns_[2].column
    /\ GetRowCount = 2

\* C2: AppendColumn(name, col) appends the entry to a block without columns,
\* and GetRowCount() is the size of col then; it appends the entry as the
\* last one when the size of col is the row count of the block; else it
\* raises an error and leaves entries, names and header as they were.
AppendColumnContract ==
    last.op = "AppendColumn" =>
        LET before == last.columns_
            fits == \/ before = <<>>
                    \/ ColSize(heap[last.column]) = BlockGetRowCount(before, heap)
        IN /\ info_ = last.info_
           /\ IF fits
              THEN /\ ~last.thrown
                   /\ columns_ = Append(before, ColumnItem(last.name, last.column))
                   /\ before = <<>> => GetRowCount = ColSize(heap[last.column])
              ELSE /\ last.thrown
                   /\ columns_ = before

\* AppendColumn raised the error on a block whose last column has the size of
\* the new one, and whose first has not.
AppendColumnRejectedWitness ==
    /\ last.op = "AppendColumn" /\ last.thrown
    /\ Len(columns_) = 2
    /\ SizeAt(2) = ColSize(heap[last.column])
    /\ SizeAt(1) # ColSize(heap[last.column])

\* C3: Clear() sets the header to is_overflows = 0, bucket_num = -1, leaves
\* the number of the entries and the column object of every entry, in their
\* order, and leaves every column without rows: GetRowCount() is 0.
ClearResetsBlock ==
    last.op = "Clear" =>
        /\ info_ = [is_overflows |-> 0, bucket_num |-> -1]
        /\ BlockGetColumnCount(columns_) = BlockGetColumnCount(last.columns_)
        /\ \A i \in 1..Len(columns_) : columns_[i].column = last.columns_[i].column
        /\ \A i \in 1..Len(columns_) : SizeAt(i) = 0
        /\ GetRowCount = 0

\* Clear() of a received block of two columns of two rows.
ClearResetsBlockWitness ==
    /\ last.op = "Clear"
    /\ last.info_ = ReceivedInfo /\ last.rows = 2
    /\ Len(columns_) = 2 /\ columns_[1].column # columns_[2].column

\* C5: operator[](i) returns the column, GetColumnName(i) the name of the
\* i-th appended entry when i < GetColumnCount(); both raise the error when
\* i >= GetColumnCount(); both leave the block as it was.
IndexReturnsAppendedEntry ==
    last.op \in {"operator[]", "GetColumnName"} =>
        /\ columns_ = last.columns_ /\ info_ = last.info_
        /\ BlockGetColumnCount(columns_) = Len(flags.appended)
        /\ IF last.idx < BlockGetColumnCount(columns_)
           THEN /\ ~last.thrown
                /\ last.value = IF last.op = "operator[]"
                                THEN flags.appended[last.idx + 1].column
                                ELSE flags.appended[last.idx + 1].name
           ELSE last.thrown

\* C27: Clear() leaves the name of every entry: for every i < GetColumnCount(),
\* GetColumnName(i) after Clear() is GetColumnName(i) before it.
ClearKeepsColumnNames ==
    last.op = "Clear" =>
        /\ BlockGetColumnCount(columns_) = BlockGetColumnCount(last.columns_)
        /\ \A i \in 0..BlockGetColumnCount(columns_) - 1 :
              BlockGetColumnName(columns_, i) = BlockGetColumnName(last.columns_, i)

(***************************************************************************)
(* SpecInsert: the loop of TEST_P(ClientCase, Insert).  A block of five    *)
(* columns is cleared, gets the rows of the round value by value through   *)
(* block[i]->AppendValue, and is inserted; then the next round begins.     *)
(*   run  round: the rounds begun; pc: the next step of the loop;          *)
(*        row, slot: the value AppendValue appends next;                   *)
(*        data: the rows of the round; dropped: the rows its Clear dropped *)
(***************************************************************************)
InsertColumns ==
    <<ColumnDateTime, ColumnVector("Int32"), ColumnVector("UInt64"),
      ColumnFixedString(FIXED_STR_LEN), ColumnString>>

InsertNames == <<"d", "i32", "u64", "fs", "s">>

RECURSIVE InsertBlock(_)
\* The entries after AppendColumn of the first n columns.
InsertBlock(n) ==
    IF n = 0 THEN <<>>
    ELSE BlockAppendColumn(InsertBlock(n - 1), InsertColumns, InsertNames[n], n).columns_

\* The rows of the test: a time, an Int32, an UInt64, FIXED_STR_LEN bytes and
\* a string.
TEST_DATA ==
    {<<SecondsPerDay + 5, -1, 1, <<1, 2, 3, 0>>, <<1>>>>,
     <<2 * SecondsPerDay, 0, 300, <<4, 5, 6, 7>>, <<1, 2, 3>>>>}

RoundData == UNION {[1..k -> TEST_DATA] : k \in 0..MaxRows}

InitInsert ==
    /\ heap = InsertColumns
    /\ columns_ = InsertBlock(Len(InsertColumns))
    /\ info_ = BlockInfo
    /\ run = [round |-> 0, pc |-> "clear", row |-> 1, slot |-> 1, data |-> <<>>,
              dropped |-> 0]
    /\ flags = Unused /\ last = Unused /\ col = Unused

InsertFrame == UNCHANGED <<flags, last, col>>

\* block.Clear() at the head of a round
InsertClear ==
    /\ run.pc = "clear"
    /\ run.round < MaxRounds
    /\ info_' = BlockClearInfo(info_)
    /\ columns_' = BlockClearNames(columns_)
    /\ heap' = BlockClearColumns(columns_, heap)
    /\ \E data \in RoundData :
          run' = [round |-> run.round + 1,
                  pc |-> IF data = <<>> THEN "insert" ELSE "append",
                  row |-> 1, slot |-> 1, data |-> data,
                  dropped |-> BlockGetRowCount(columns_, heap)]
    /\ InsertFrame

\* block[slot]->AppendValue(td.<slot>)
InsertAppendValue ==
    /\ run.pc = "append"
    /\ LET h == BlockAt(columns_, run.slot - 1).value
           lastSlot == run.slot = Len(columns_)
           lastRow == run.row = Len(run.data)
       IN /\ heap' = [heap EXCEPT ![h] = ColAppendValue(heap[h], run.data[run.row][run.slot]).col]
          /\ run' = [run EXCEPT
                       !.slot = IF lastSlot THEN 1 ELSE run.slot + 1,
                       !.row = IF lastSlot THEN run.row + 1 ELSE run.row,
                       !.pc = IF lastSlot /\ lastRow THEN "insert" ELSE "append"]
    /\ UNCHANGED <<columns_, info_>>
    /\ InsertFrame

\* client_->Insert(table, block): the block is read, not changed.
InsertSend ==
    /\ run.pc = "insert"
    /\ run' = [run EXCEPT !.pc = "clear"]
    /\ UNCHANGED <<heap, columns_, info_>>
    /\ InsertFrame

NextInsert ==
    \/ InsertClear
    \/ InsertAppendValue
    \/ InsertSend

SpecInsert == InitInsert /\ [][NextInsert]_vars

(***************************************************************************)
(* Claims about SpecInsert.                                                *)
(***************************************************************************)
\* C4: after every round of Clear() and AppendValue of the k rows of the
\* round to every column, GetRowCount() is k and every column holds the k
\* values of the round, in their order, and nothing of an earlier round.
InsertRoundHoldsItsRows ==
    run.pc = "insert" =>
        /\ GetRowCount = Len(run.data)
        /\ \A i \in 1..Len(columns_) :
              /\ SizeAt(i) = Len(run.data)
              /\ RowsReadable(heap[columns_[i].column])
              /\ Rows(heap[columns_[i].column]) = [r \in 1..Len(run.data) |-> run.data[r][i]]

\* The second round is over: its Clear dropped two rows, and one row of the
\* round has come.
InsertRoundWitness ==
    /\ run.pc = "insert" /\ run.round = 2
    /\ run.dropped = 2 /\ Len(run.data) = 1
    /\ GetRowCount = 1

====
